---------------------------- MODULE Spec2Model ----------------------------
(***************************************************************************)
(* Model of the synthetic-data front-end:                                  *)
(*   src/src/lib/dataGenerator.ts   DataGeneratorService (the orchestrator,  *)
(*                                  the fallback schema and row synthesizers)*)
(*   src/src/pages/DataGenerator.tsx  the DataGenerator page (React state   *)
(*                                  and its event handlers)                 *)
(*                                                                         *)
(* JavaScript values are represented as follows.                           *)
(*   object with ordered keys  a sequence of entries [k |-> key, v |-> x]  *)
(*   string / number / boolean [t |-> "string", v |-> "..."] and so on      *)
(*   ISO timestamp string      [t |-> "isodate", v |-> instant]             *)
(*   a state holding null      Null                                        *)
(*   an absent member          Undefined                                   *)
(*   field descriptor          [kind |-> "object", type |-> t], or          *)
(*                             kind "null" (null/undefined: reading .type   *)
(*                             throws) or "primitive" (.type is undefined)  *)
(* Instants and durations are counted in seconds instead of milliseconds.  *)
(* Math.random() is a draw u / RandRes with u in 0 .. RandRes-1, taken     *)
(* from a stream fixed by a seed.                                          *)
(***************************************************************************)
EXTENDS Integers, Sequences, FiniteSets, TLC

VARIABLES
    \* React state of the DataGenerator page
    selectedDataType, selectedDomain, generationStep, isGenerating,
    uploadedData, generatedData, generationProgress, inputMethod,
    naturalLanguageDescription, generatedSchema, isGeneratingSchema,
    generationConfig,
    \* useStore()
    user, isGuest,
    \* the last toast shown
    toast,
    \* calls of generateSyntheticDataset / generateSchemaFromDescription
    genReqs, schemaReqs,
    \* files dropped on the page whose processUploadedData call is pending
    uploadReqs,
    \* the last file handleExportData made the browser download
    download,
    \* a caller of exportData / processUploadedData other than the page: the
    \* dataset it started from, the text it holds and the last parse result
    codec,
    \* a caller of generateSchemaFromDescription other than the page: the
    \* domain it passed, what the fetch came to and the value it received
    schemaCall,
    \* a caller of the exported generateSyntheticData: the options it passed,
    \* what the fetch came to and how the promise settled
    legacyCall

uiVars == <<selectedDataType, selectedDomain, generationStep, isGenerating,
            uploadedData, generatedData, generationProgress, inputMethod,
            naturalLanguageDescription, generatedSchema, isGeneratingSchema,
            generationConfig, user, isGuest, toast>>

fileVars == <<uploadReqs, download, codec, schemaCall, legacyCall>>

vars == <<uiVars, genReqs, schemaReqs, fileVars>>

-----------------------------------------------------------------------------
(* Bounds *)

MaxRows == 2
MaxFields == 2
MaxGenReqs == 1
MaxRacingReqs == 2
RandRes == 4

-----------------------------------------------------------------------------
(* JavaScript values *)

Null == [isNull |-> TRUE]

Str(s) == [t |-> "string", v |-> s]
Num(n) == [t |-> "number", v |-> n]
Bool(b) == [t |-> "boolean", v |-> b]
IsoDate(at) == [t |-> "isodate", v |-> at]

\* typeof value
TypeOf(x) == IF x.t = "isodate" THEN "string" ELSE x.t

Entry(key, x) == [k |-> key, v |-> x]

\* Object.keys(obj)
Keys(obj) == [i \in 1..Len(obj) |-> obj[i].k]

KeySet(obj) == {obj[i].k : i \in 1..Len(obj)}

HasKey(obj, key) == key \in KeySet(obj)

\* obj[key], for a key the object has
Get(obj, key) == obj[CHOOSE i \in 1..Len(obj) : obj[i].k = key].v

\* a field descriptor { type: t }
Desc(type) == [kind |-> "object", type |-> type]

\* a descriptor that is null or undefined
NullDesc == [kind |-> "null", type |-> "undefined"]

\* a descriptor that is a primitive, such as the string "number"
PrimitiveDesc == [kind |-> "primitive", type |-> "undefined"]

-----------------------------------------------------------------------------
(* The random source and the clock *)

\* the n-th draw of Math.random() of the stream `seed`, as a numerator over RandRes
Random(seed, n) == (seed + n * (seed + 1)) % RandRes

\* Math.floor(Math.random() * 1000)
RandomInt1000(u) == (u * 1000) \div RandRes

\* Math.random() > 0.5
RandomBool(u) == 2 * u > RandRes

YearSeconds == 365 * 24 * 60 * 60

\* mutant: the random span is added to Date.now()
RandomPastInstant_Ahead(now, u) == now + (u * YearSeconds) \div RandRes

\* new Date(Date.now() - Math.random() * 365 * 24 * 60 * 60 * 1000)
RandomPastInstant(now, u) == now - (u * YearSeconds) \div RandRes

-----------------------------------------------------------------------------
(* DataGeneratorService.generateFallbackData *)

DefaultRowCount == 1000

FallbackQualityScore == 85
FallbackPrivacyScore == 90
FallbackBiasScore == 88

Undefined == [t |-> "undefined", v |-> <<>>]

Arr(rows) == [t |-> "array", v |-> rows]

\* const { schema, rowCount = 1000 } = options
RowCountOf(options) ==
    IF options.rowCount.t = "undefined" THEN DefaultRowCount ELSE options.rowCount.v

\* mutant: the loop runs while i <= rowCount
LoopCount_Inclusive(rowCount) == IF rowCount >= 0 THEN rowCount + 1 ELSE 0

\* the number of iterations of  for (let i = 0; i < rowCount; i++)
LoopCount(rowCount) == IF rowCount > 0 THEN rowCount ELSE 0

\* the switch over schema[key].type, for row i (0-based) and draw u
FallbackValue(key, desc, i, now, u) ==
    CASE desc.type = "string" -> Str("Generated " \o key \o " " \o ToString(i + 1))
      [] desc.type = "number" -> Num(RandomInt1000(u))
      [] desc.type = "boolean" -> Bool(RandomBool(u))
      [] desc.type = "date" -> IsoDate(RandomPastInstant(now, u))
      [] OTHER -> Str("Value " \o ToString(i + 1))

\* mutant: the row loop skips the last key of the schema
FallbackRow_DropsLastKey(schema, i, now, seed) ==
    [j \in 1..(Len(schema) - 1) |->
        Entry(schema[j].k,
              FallbackValue(schema[j].k, schema[j].v, i, now,
                            Random(seed, i * Len(schema) + (j - 1))))]

\* one iteration of the row loop
FallbackRow(schema, i, now, seed) ==
    [j \in 1..Len(schema) |->
        Entry(schema[j].k,
              FallbackValue(schema[j].k, schema[j].v, i, now,
                            Random(seed, i * Len(schema) + (j - 1))))]

\* mutant: the synthesizer throws for every schema that has a field
FallbackThrows_AnyField(options) ==
    /\ LoopCount(RowCountOf(options)) > 0
    /\ Len(options.schema) > 0

\* schema[key].type throws a TypeError when schema[key] is null or undefined
FallbackThrows(options) ==
    /\ LoopCount(RowCountOf(options)) > 0
    /\ \E j \in 1..Len(options.schema) : options.schema[j].v.kind = "null"

FallbackMetadata(rows, schema) ==
    [rowsGenerated |-> Len(rows),
     columnsGenerated |-> Len(Keys(schema)),
     generationMethod |-> "local_fallback"]

GenerateFallbackData(options, now, seed) ==
    LET rows == [n \in 1..LoopCount(RowCountOf(options)) |->
                    FallbackRow(options.schema, n - 1, now, seed)]
    IN  [data |-> Arr(rows),
         metadata |-> FallbackMetadata(rows, options.schema),
         qualityScore |-> FallbackQualityScore,
         privacyScore |-> FallbackPrivacyScore,
         biasScore |-> FallbackBiasScore]

-----------------------------------------------------------------------------
(* DataGeneratorService.generateSyntheticDataset *)

RemoteQualityScore == 95
RemotePrivacyScore == 98
RemoteBiasScore == 92

\* What the fetch of /api/generation/generate-local and the reading of its
\* body come to:
\*   kind  "network_error" (fetch rejects) or "http" (a response)
\*   ok    response.ok
\*   json  what response.json() gives: "invalid" (it rejects), "null", or
\*         "object" with the members data and scores (Undefined when absent)
NetworkError ==
    [kind |-> "network_error", ok |-> FALSE, json |-> "invalid",
     data |-> Undefined, scores |-> Undefined]

HttpFailure ==
    [kind |-> "http", ok |-> FALSE, json |-> "invalid",
     data |-> Undefined, scores |-> Undefined]

InvalidJson ==
    [kind |-> "http", ok |-> TRUE, json |-> "invalid",
     data |-> Undefined, scores |-> Undefined]

JsonNull ==
    [kind |-> "http", ok |-> TRUE, json |-> "null",
     data |-> Undefined, scores |-> Undefined]

JsonObject(data, scores) ==
    [kind |-> "http", ok |-> TRUE, json |-> "object",
     data |-> data, scores |-> scores]

Scores(q, p, b) ==
    [t |-> "scores", v |-> [qualityScore |-> q, privacyScore |-> p, biasScore |-> b]]

\* The try block runs to its return statement: fetch resolved, response.ok,
\* response.json() resolved and result.data did not throw.
RemoteReturns(outcome) ==
    /\ outcome.kind = "http"
    /\ outcome.ok
    /\ outcome.json = "object"

\* result.data?.length || 0
RemoteRowsGenerated(data) == IF data.t = "array" THEN Len(data.v) ELSE 0

\* Object.keys(result.data?.[0] || {}).length
RemoteColumnsGenerated(data) ==
    IF data.t = "array" /\ Len(data.v) > 0 THEN Len(Keys(data.v[1])) ELSE 0

RemoteMetadata(data) ==
    [rowsGenerated |-> RemoteRowsGenerated(data),
     columnsGenerated |-> RemoteColumnsGenerated(data),
     generationMethod |-> "backend_local"]

\* the object returned inside  if (response.ok) { ... }
RemoteResult(outcome) ==
    [data |-> outcome.data,
     metadata |-> RemoteMetadata(outcome.data),
     qualityScore |-> RemoteQualityScore,
     privacyScore |-> RemotePrivacyScore,
     biasScore |-> RemoteBiasScore]

\* One call of generateSyntheticDataset, as the orchestrator's state machine:
\*   requesting_remote   awaiting fetch / response.json()
\*   succeeded_remote    returned from inside the try block
\*   falling_back        left the try block (not ok, or caught), about to run
\*                       this.generateFallbackData(options)
\*   succeeded_fallback  returned the fallback result
\*   failed              generateFallbackData threw: the promise rejects
\* awaited: the call was made by handleGenerate, whose continuation is pending.
\* genReqs holds the calls in the order they were made.
\* outcome records what the remote call came to (Pending until it settles).
Pending ==
    [kind |-> "pending", ok |-> FALSE, json |-> "invalid",
     data |-> Undefined, scores |-> Undefined]

NewRequest(options, awaited) ==
    [state |-> "requesting_remote", options |-> options, outcome |-> Pending,
     result |-> Null, awaited |-> awaited]

TerminalStates == {"succeeded_remote", "succeeded_fallback", "failed"}

\* A caller other than the page calls generateSyntheticDataset(options); calls
\* do not share state, so one call at a time is followed.
CallGenerateSyntheticDataset(options) ==
    /\ genReqs = <<>>
    /\ genReqs' = Append(genReqs, NewRequest(options, FALSE))
    /\ UNCHANGED <<uiVars, schemaReqs>>
    /\ UNCHANGED fileVars

\* The awaited fetch and body of request i come to `outcome`.
GenerateRemoteSettles(i, outcome) ==
    /\ i \in 1..Len(genReqs)
    /\ genReqs[i].state = "requesting_remote"
    /\ genReqs' = [genReqs EXCEPT ![i] =
            IF RemoteReturns(outcome)
            THEN [@ EXCEPT !.state = "succeeded_remote", !.outcome = outcome,
                           !.result = RemoteResult(outcome)]
            ELSE [@ EXCEPT !.state = "falling_back", !.outcome = outcome]]
    /\ UNCHANGED <<uiVars, schemaReqs>>
    /\ UNCHANGED fileVars

\* return this.generateFallbackData(options)
GenerateFallsBack(i, now, seed) ==
    /\ i \in 1..Len(genReqs)
    /\ genReqs[i].state = "falling_back"
    /\ genReqs' = [genReqs EXCEPT ![i] =
            IF FallbackThrows(genReqs[i].options)
            THEN [@ EXCEPT !.state = "failed"]
            ELSE [@ EXCEPT !.state = "succeeded_fallback",
                           !.result = GenerateFallbackData(genReqs[i].options, now, seed)]]
    /\ UNCHANGED <<uiVars, schemaReqs>>
    /\ UNCHANGED fileVars

-----------------------------------------------------------------------------
(* Inputs *)

FieldNames == <<"a", "b", "c", "d">>

Descriptors ==
    {Desc("string"), Desc("number"), Desc("boolean"), Desc("date"),
     Desc("uuid"), Desc("undefined"), NullDesc, PrimitiveDesc}

\* the schemas with the first n field names, in that order
SchemasOfSize(n) ==
    {[j \in 1..n |-> Entry(FieldNames[j], d[j])] : d \in [1..n -> Descriptors]}

Schemas == UNION {SchemasOfSize(n) : n \in 0..MaxFields}

RowCounts == {Num(n) : n \in 0..MaxRows}

Options(schema, rowCount) ==
    [domain |-> "finance", data_type |-> "tabular", sourceData |-> <<>>,
     schema |-> schema, isGuest |-> TRUE, rowCount |-> rowCount,
     quality_level |-> "high", privacy_level |-> "maximum"]

\* options with every schema and row count, and options without rowCount (which
\* ask for 1000 rows) with the schemas of at most one field
GenOptions ==
    {Options(s, n) : s \in Schemas, n \in RowCounts}
    \cup {Options(s, Undefined) : s \in SchemasOfSize(0) \cup SchemasOfSize(1)}

Seeds == 0..(RandRes - 1)

Instants == {40000000}

\* rows a backend may answer with
RemoteRow(n, x) == [j \in 1..n |-> Entry(FieldNames[j], x)]

RemoteDatas ==
    {Undefined, Arr(<<>>)}
    \cup {Arr([r \in 1..m |-> RemoteRow(n, Num(7))]) : m \in 1..MaxRows, n \in 0..MaxFields}

RemoteScores == {Undefined, Scores(70, 60, 50)}

GenOutcomes ==
    {NetworkError, HttpFailure, InvalidJson, JsonNull}
    \cup {JsonObject(d, sc) : d \in RemoteDatas, sc \in RemoteScores}

-----------------------------------------------------------------------------
(* The page after construction *)

\* the useState initial values, for the session <<u, g>> of useStore(); n is
\* the number of records, 10000 until the "Number of Records" input is edited
InitPage(u, g, n) ==
    /\ selectedDataType = "tabular"
    /\ selectedDomain = ""
    /\ generationStep = 1
    /\ isGenerating = FALSE
    /\ uploadedData = Null
    /\ generatedData = Null
    /\ generationProgress = 0
    /\ inputMethod = "describe"
    /\ naturalLanguageDescription = <<>>
    /\ generatedSchema = Null
    /\ isGeneratingSchema = FALSE
    /\ generationConfig =
         [rowCount |-> n, quality_level |-> "high", privacy_level |-> "maximum"]
    /\ user = u
    /\ isGuest = g
    /\ toast = "none"

-----------------------------------------------------------------------------
(* The orchestrator alone: calls of generateSyntheticDataset with any options *)

\* no file was dropped, exported or handed to the service
NoFiles ==
    /\ uploadReqs = <<>>
    /\ download = Null
    /\ codec = Null
    /\ schemaCall = Null
    /\ legacyCall = Null

InitGen ==
    /\ InitPage(FALSE, TRUE, 1)
    /\ genReqs = <<>>
    /\ schemaReqs = <<>>
    /\ NoFiles

NextGen ==
    \/ \E options \in GenOptions : CallGenerateSyntheticDataset(options)
    \/ \E outcome \in GenOutcomes : GenerateRemoteSettles(1, outcome)
    \/ \E now \in Instants, seed \in Seeds : GenerateFallsBack(1, now, seed)

SpecGen == InitGen /\ [][NextGen]_vars

\* The continuation of an async function runs once the promise it awaits has
\* settled: a call that left the try block does run the fallback.
FairSpecGen ==
    SpecGen /\ WF_vars(\E now \in Instants, seed \in Seeds : GenerateFallsBack(1, now, seed))

-----------------------------------------------------------------------------
(* DataGeneratorService.generateFallbackSchema *)

Obj(entries) == [t |-> "object", v |-> entries]

HealthcareSchema ==
    <<Entry("patient_id", Desc("string")), Entry("name", Desc("string")),
      Entry("age", Desc("number")), Entry("condition", Desc("string")),
      Entry("treatment", Desc("string")), Entry("admission_date", Desc("date"))>>

FinanceSchema ==
    <<Entry("account_id", Desc("string")), Entry("customer_name", Desc("string")),
      Entry("transaction_amount", Desc("number")), Entry("transaction_type", Desc("string")),
      Entry("transaction_date", Desc("date")), Entry("balance", Desc("number"))>>

RetailSchema ==
    <<Entry("customer_id", Desc("string")), Entry("product_name", Desc("string")),
      Entry("category", Desc("string")), Entry("price", Desc("number")),
      Entry("quantity", Desc("number")), Entry("purchase_date", Desc("date"))>>

GenericSchema ==
    <<Entry("id", Desc("string")), Entry("name", Desc("string")),
      Entry("value", Desc("number")), Entry("category", Desc("string")),
      Entry("created_at", Desc("date"))>>

\* mutant: the finance domain gets the generic schema
DomainSchema_FinanceIsGeneric(domain) ==
    CASE domain = "healthcare" -> HealthcareSchema
      [] domain = "retail" -> RetailSchema
      [] OTHER -> GenericSchema

\* the if / else-if chain over domain
DomainSchema(domain) ==
    CASE domain = "healthcare" -> HealthcareSchema
      [] domain = "finance" -> FinanceSchema
      [] domain = "retail" -> RetailSchema
      [] OTHER -> GenericSchema

SampleRowCount == 3

\* the switch over schema[key].type of the sample rows
SampleValue(key, desc, i, now, u) ==
    CASE desc.type = "string" -> Str("Sample " \o key \o " " \o ToString(i + 1))
      [] desc.type = "number" -> Num(RandomInt1000(u))
      [] desc.type = "date" -> IsoDate(now)
      [] OTHER -> Str("Value " \o ToString(i + 1))

\* mutant: the sample rows lack the schema's last key
SampleRow_DropsLastKey(schema, i, now, seed) ==
    [j \in 1..(Len(schema) - 1) |->
        Entry(schema[j].k,
              SampleValue(schema[j].k, schema[j].v, i, now,
                          Random(seed, i * Len(schema) + (j - 1))))]

\* Object.keys(schema).forEach of the i-th sample row
SampleRow(schema, i, now, seed) ==
    [j \in 1..Len(schema) |->
        Entry(schema[j].k,
              SampleValue(schema[j].k, schema[j].v, i, now,
                          Random(seed, i * Len(schema) + (j - 1))))]

GenerateFallbackSchema(domain, now, seed) ==
    [t |-> "object",
     schema |-> Obj(DomainSchema(domain)),
     sampleData |-> Arr([n \in 1..SampleRowCount |->
                            SampleRow(DomainSchema(domain), n - 1, now, seed)]),
     detectedDomain |-> Str(domain)]

-----------------------------------------------------------------------------
(* DataGeneratorService.generateSchemaFromDescription *)

\* What the fetch of /api/generation/schema-from-description and the reading
\* of its body come to; body is the parsed JSON when json = "object".
NoBody == [t |-> "object", schema |-> Undefined, sampleData |-> Undefined, detectedDomain |-> Undefined]

SchemaNetworkError == [kind |-> "network_error", ok |-> FALSE, json |-> "invalid", body |-> NoBody]

SchemaHttpFailure == [kind |-> "http", ok |-> FALSE, json |-> "invalid", body |-> NoBody]

SchemaInvalidJson == [kind |-> "http", ok |-> TRUE, json |-> "invalid", body |-> NoBody]

SchemaJsonNull == [kind |-> "http", ok |-> TRUE, json |-> "null", body |-> NoBody]

SchemaJsonObject(body) == [kind |-> "http", ok |-> TRUE, json |-> "object", body |-> body]

\* if (response.ok) { return await response.json(); }  resolves
SchemaRemoteReturns(outcome) ==
    /\ outcome.kind = "http"
    /\ outcome.ok
    /\ outcome.json # "invalid"

\* The value generateSchemaFromDescription resolves to: JsonNullValue when the
\* body is the JSON null, the body when it is an object, the fallback schema
\* when the try block is left.
JsonNullValue == [t |-> "null", v |-> <<>>]

GenerateSchemaFromDescription(domain, outcome, now, seed) ==
    IF SchemaRemoteReturns(outcome)
    THEN IF outcome.json = "null" THEN JsonNullValue ELSE outcome.body
    ELSE GenerateFallbackSchema(domain, now, seed)

\* generateSchemaFromDescription(description, domain, dataType), settled,
\* for a caller other than the page
CallGenerateSchemaFromDescription(domain, outcome, now, seed) ==
    /\ schemaCall' = [domain |-> domain,
                      outcome |-> outcome,
                      value |-> GenerateSchemaFromDescription(domain, outcome, now, seed)]
    /\ UNCHANGED <<uiVars, genReqs, schemaReqs, uploadReqs, download, codec, legacyCall>>

-----------------------------------------------------------------------------
(* The DataGenerator page: input *)

Whitespace == {" ", "\t", "\n"}

RECURSIVE TrimStart(_)
TrimStart(s) ==
    IF s # <<>> /\ Head(s) \in Whitespace THEN TrimStart(Tail(s)) ELSE s

RECURSIVE TrimEnd(_)
TrimEnd(s) ==
    IF s # <<>> /\ s[Len(s)] \in Whitespace
    THEN TrimEnd(SubSeq(s, 1, Len(s) - 1))
    ELSE s

\* String.prototype.trim, on a string given as the sequence of its characters
Trim(s) == TrimEnd(TrimStart(s))

SetSelectedDataType(type) ==
    /\ selectedDataType' = type
    /\ UNCHANGED <<selectedDomain, generationStep, isGenerating, uploadedData,
                   generatedData, generationProgress, inputMethod,
                   naturalLanguageDescription, generatedSchema, isGeneratingSchema,
                   generationConfig, user, isGuest, toast, genReqs, schemaReqs>>
    /\ UNCHANGED fileVars

SetSelectedDomain(domain) ==
    /\ selectedDomain' = domain
    /\ UNCHANGED <<selectedDataType, generationStep, isGenerating, uploadedData,
                   generatedData, generationProgress, inputMethod,
                   naturalLanguageDescription, generatedSchema, isGeneratingSchema,
                   generationConfig, user, isGuest, toast, genReqs, schemaReqs>>
    /\ UNCHANGED fileVars

SetInputMethod(method) ==
    /\ inputMethod' = method
    /\ UNCHANGED <<selectedDataType, selectedDomain, generationStep, isGenerating,
                   uploadedData, generatedData, generationProgress,
                   naturalLanguageDescription, generatedSchema, isGeneratingSchema,
                   generationConfig, user, isGuest, toast, genReqs, schemaReqs>>
    /\ UNCHANGED fileVars

\* the textarea (rendered for the 'describe' method) and the example buttons
SetNaturalLanguageDescription(text) ==
    /\ inputMethod = "describe"
    /\ naturalLanguageDescription' = text
    /\ UNCHANGED <<selectedDataType, selectedDomain, generationStep, isGenerating,
                   uploadedData, generatedData, generationProgress, inputMethod,
                   generatedSchema, isGeneratingSchema,
                   generationConfig, user, isGuest, toast, genReqs, schemaReqs>>
    /\ UNCHANGED fileVars

InitialRowCount == 10000

\* parseInt(e.target.value) || 10000
ParsedRowCount(n) == IF n = 0 THEN InitialRowCount ELSE n

\* the "Number of Records" input
SetRowCount(n) ==
    /\ generationConfig' = [generationConfig EXCEPT !.rowCount = ParsedRowCount(n)]
    /\ UNCHANGED <<selectedDataType, selectedDomain, generationStep, isGenerating,
                   uploadedData, generatedData, generationProgress, inputMethod,
                   naturalLanguageDescription, generatedSchema, isGeneratingSchema,
                   user, isGuest, toast, genReqs, schemaReqs>>
    /\ UNCHANGED fileVars

-----------------------------------------------------------------------------
(* The DataGenerator page: handleGenerateSchema *)

MinDescriptionLength == 10

\* the "Generate Schema from Description" button is rendered and not disabled
SchemaButtonEnabled ==
    /\ inputMethod = "describe"
    /\ ~isGeneratingSchema
    /\ Trim(naturalLanguageDescription) # <<>>
    /\ selectedDomain # ""
    /\ selectedDataType # ""

\* the "Try Again" button of the "Schema Generation Failed" panel is rendered
TryAgainVisible ==
    /\ inputMethod = "describe"
    /\ naturalLanguageDescription # <<>>
    /\ generatedSchema = Null
    /\ ~isGeneratingSchema

\* mutant: the domain is not validated
SchemaValidationError_NoDomainCheck(description, domain, dataType) ==
    CASE description = <<>> -> "error: please describe the data"
      [] Len(description) < MinDescriptionLength -> "error: more detailed description"
      [] dataType = "" -> "error: select a data type"
      [] OTHER -> "none"

\* the toast of the first validation that fails, "none" when all pass
SchemaValidationError(description, domain, dataType) ==
    CASE description = <<>> -> "error: please describe the data"
      [] Len(description) < MinDescriptionLength -> "error: more detailed description"
      [] domain = "" -> "error: select a domain"
      [] dataType = "" -> "error: select a data type"
      [] OTHER -> "none"

\* handleGenerateSchema, up to its await
HandleGenerateSchema ==
    /\ SchemaButtonEnabled \/ TryAgainVisible
    /\ LET description == Trim(naturalLanguageDescription)
           error == SchemaValidationError(description, selectedDomain, selectedDataType)
       IN  IF error # "none"
           THEN /\ toast' = error
                /\ UNCHANGED <<isGeneratingSchema, generatedSchema, schemaReqs>>
           ELSE /\ isGeneratingSchema' = TRUE
                /\ generatedSchema' = Null
                /\ schemaReqs' = Append(schemaReqs,
                        [description |-> description, domain |-> selectedDomain,
                         dataType |-> selectedDataType])
                /\ UNCHANGED toast
    /\ UNCHANGED <<selectedDataType, selectedDomain, generationStep, isGenerating,
                   uploadedData, generatedData, generationProgress, inputMethod,
                   naturalLanguageDescription, generationConfig, user, isGuest,
                   genReqs>>
    /\ UNCHANGED fileVars

\* mutant: a schema without fields is accepted
SchemaIsEmptyOrInvalid_AcceptsNoFields(value) ==
    \/ value.t # "object"
    \/ value.schema.t # "object"

\* !schema || !schema.schema || Object.keys(schema.schema).length === 0
SchemaIsEmptyOrInvalid(value) ==
    \/ value.t # "object"
    \/ value.schema.t # "object"
    \/ Len(Keys(value.schema.v)) = 0

\* The awaited generateSchemaFromDescription settles and handleGenerateSchema
\* runs from its await to its end.
HandleGenerateSchemaResumes(outcome, now, seed) ==
    /\ schemaReqs # <<>>
    /\ LET value == GenerateSchemaFromDescription(Head(schemaReqs).domain, outcome, now, seed)
       IN  IF SchemaIsEmptyOrInvalid(value)
           THEN /\ toast' = "error: schema generation failed"
                /\ generationStep' = 1
                /\ UNCHANGED generatedSchema
           ELSE /\ generatedSchema' = value
                /\ generationStep' = 2
                /\ toast' = "success: schema generated"
    /\ isGeneratingSchema' = FALSE
    /\ schemaReqs' = Tail(schemaReqs)
    /\ UNCHANGED <<selectedDataType, selectedDomain, isGenerating, uploadedData,
                   generatedData, generationProgress, inputMethod,
                   naturalLanguageDescription, generationConfig, user, isGuest,
                   genReqs>>
    /\ UNCHANGED fileVars

-----------------------------------------------------------------------------
(* The DataGenerator page: handleGenerate *)

IsGenerationButtonEnabled ==
    /\ selectedDomain # "" /\ selectedDataType # ""
    /\ \/ inputMethod = "describe" /\ generatedSchema # Null
       \/ inputMethod = "upload" /\ uploadedData # Null
    /\ ~isGenerating
    /\ ~isGeneratingSchema

\* x || [] and x || {} for a member x that is an array / object or absent
OrEmpty(x) == IF x.t = "undefined" THEN <<>> ELSE x.v

\* sourceData and schema, from the input method in use
SourceOf(method, uploaded, generated) ==
    IF method = "upload" /\ uploaded # Null
    THEN [sourceData |-> OrEmpty(uploaded.data), schema |-> OrEmpty(uploaded.schema)]
    ELSE IF method = "describe" /\ generated # Null
    THEN [sourceData |-> OrEmpty(generated.sampleData), schema |-> OrEmpty(generated.schema)]
    ELSE [sourceData |-> <<>>, schema |-> <<>>]

\* the argument of dataService.generateSyntheticDataset; its description member,
\* which is only serialised into the request body, is left out
GenerateOptions ==
    LET source == SourceOf(inputMethod, uploadedData, generatedSchema)
    IN  [domain |-> selectedDomain,
         data_type |-> selectedDataType,
         sourceData |-> source.sourceData,
         schema |-> source.schema,
         isGuest |-> isGuest \/ ~user,
         rowCount |-> Num(generationConfig.rowCount),
         quality_level |-> generationConfig.quality_level,
         privacy_level |-> generationConfig.privacy_level]

\* handleGenerate, up to its await; the click needs the button enabled, and
\* at most maxInFlight calls are followed at a time
HandleGenerate(maxInFlight) ==
    /\ IsGenerationButtonEnabled
    /\ IF ~user /\ ~isGuest
       THEN /\ toast' = "error: please sign in"
            /\ UNCHANGED <<isGenerating, generationStep, generationProgress, genReqs>>
       ELSE /\ Len(genReqs) < maxInFlight
            /\ isGenerating' = TRUE
            /\ generationStep' = 3
            /\ generationProgress' = 0
            /\ genReqs' = Append(genReqs, NewRequest(GenerateOptions, TRUE))
            /\ UNCHANGED toast
    /\ UNCHANGED <<selectedDataType, selectedDomain, uploadedData, generatedData,
                   inputMethod, naturalLanguageDescription, generatedSchema,
                   isGeneratingSchema, generationConfig, user, isGuest, schemaReqs>>
    /\ UNCHANGED fileVars

\* mutant: the catch block discards the earlier result
HandleGenerateResumes_DiscardsOnFailure(i) ==
    /\ i \in 1..Len(genReqs)
    /\ genReqs[i].awaited
    /\ genReqs[i].state \in TerminalStates
    /\ IF genReqs[i].state = "failed"
       THEN /\ toast' = "error: generation failed"
            /\ isGenerating' = FALSE
            /\ generationStep' = 2
            /\ generatedData' = Null
       ELSE /\ generatedData' = genReqs[i].result
            /\ generationStep' = 4
            /\ toast' = "success: generation complete"
            /\ isGenerating' = FALSE
    /\ genReqs' = [j \in 1..(Len(genReqs) - 1) |->
                        IF j < i THEN genReqs[j] ELSE genReqs[j + 1]]
    /\ UNCHANGED <<selectedDataType, selectedDomain, uploadedData,
                   generationProgress, inputMethod, naturalLanguageDescription,
                   generatedSchema, isGeneratingSchema, generationConfig, user,
                   isGuest, schemaReqs>>
    /\ UNCHANGED fileVars

\* handleGenerate, from its await to its end, for the call i it awaits; the
\* settled call is then dropped from genReqs
HandleGenerateResumes(i) ==
    /\ i \in 1..Len(genReqs)
    /\ genReqs[i].awaited
    /\ genReqs[i].state \in TerminalStates
    /\ IF genReqs[i].state = "failed"
       THEN /\ toast' = "error: generation failed"
            /\ isGenerating' = FALSE
            /\ generationStep' = 2
            /\ UNCHANGED generatedData
       ELSE /\ generatedData' = genReqs[i].result
            /\ generationStep' = 4
            /\ toast' = "success: generation complete"
            /\ isGenerating' = FALSE
    /\ genReqs' = [j \in 1..(Len(genReqs) - 1) |->
                        IF j < i THEN genReqs[j] ELSE genReqs[j + 1]]
    /\ UNCHANGED <<selectedDataType, selectedDomain, uploadedData,
                   generationProgress, inputMethod, naturalLanguageDescription,
                   generatedSchema, isGeneratingSchema, generationConfig, user,
                   isGuest, schemaReqs>>
    /\ UNCHANGED fileVars

-----------------------------------------------------------------------------
(* The DataGenerator page: the effect on lastMessage *)

\* mutant: data.progress is stored whatever its sign
OnGenerationUpdate_StoresAnyProgress(progress) ==
    /\ generationProgress' =
         IF progress.t = "number" THEN progress.v ELSE generationProgress
    /\ IF progress.t = "number" /\ progress.v = 100
       THEN /\ isGenerating' = FALSE
            /\ generationStep' = 4
            /\ toast' = "success: generation completed"
       ELSE IF progress.t = "number" /\ progress.v = -1
       THEN /\ isGenerating' = FALSE
            /\ toast' = "error: generation failed (push)"
            /\ UNCHANGED generationStep
       ELSE UNCHANGED <<isGenerating, generationStep, toast>>
    /\ UNCHANGED <<selectedDataType, selectedDomain, uploadedData, generatedData,
                   inputMethod, naturalLanguageDescription, generatedSchema,
                   isGeneratingSchema, generationConfig, user, isGuest,
                   genReqs, schemaReqs>>
    /\ UNCHANGED fileVars

\* A generation_update message arrives on the push channel. progress is
\* data.progress (Undefined when absent); step, message and gemini_used only
\* reach the logs and the toast text.
OnGenerationUpdate(progress) ==
    /\ generationProgress' =
         IF progress.t = "number" /\ progress.v >= 0 THEN progress.v
         ELSE generationProgress
    /\ IF progress.t = "number" /\ progress.v = 100
       THEN /\ isGenerating' = FALSE
            /\ generationStep' = 4
            /\ toast' = "success: generation completed"
       ELSE IF progress.t = "number" /\ progress.v = -1
       THEN /\ isGenerating' = FALSE
            /\ toast' = "error: generation failed (push)"
            /\ UNCHANGED generationStep
       ELSE UNCHANGED <<isGenerating, generationStep, toast>>
    /\ UNCHANGED <<selectedDataType, selectedDomain, uploadedData, generatedData,
                   inputMethod, naturalLanguageDescription, generatedSchema,
                   isGeneratingSchema, generationConfig, user, isGuest,
                   genReqs, schemaReqs>>
    /\ UNCHANGED fileVars

-----------------------------------------------------------------------------
(* The page in use *)

UiDataTypes == {"tabular"}

UiDomains == {"finance"}

BlankDescription == <<" ", " ">>

ShortDescription == <<" ", "d", "a", "t", "a", " ">>

LongDescription == <<"c", "u", "s", "t", "o", "m", "e", "r", " ", "d", "a", "t", "a">>

Descriptions == {<<>>, BlankDescription, ShortDescription, LongDescription}

UiRowCounts == {2}

UiSeeds == {1}

\* <<user, isGuest>>: signed out, guest
Sessions == {<<FALSE, FALSE>>, <<FALSE, TRUE>>}

Progresses == {Num(-1), Num(100)}

UiGenOutcomes ==
    {NetworkError, JsonObject(Undefined, Undefined),
     JsonObject(Arr(<<RemoteRow(1, Num(7))>>), Undefined)}

SchemaBody(schema) ==
    [t |-> "object", schema |-> schema, sampleData |-> Arr(<<>>), detectedDomain |-> Undefined]

UiSchemaOutcomes ==
    {SchemaNetworkError,
     SchemaJsonObject(SchemaBody(Undefined)),
     SchemaJsonObject(SchemaBody(Obj(<<Entry("a", Desc("string"))>>))),
     SchemaJsonObject(SchemaBody(Obj(<<Entry("a", NullDesc)>>))),
     SchemaJsonObject(SchemaBody(Obj(<<>>)))}

Init ==
    /\ \E session \in Sessions, n \in UiRowCounts : InitPage(session[1], session[2], n)
    /\ genReqs = <<>>
    /\ schemaReqs = <<>>
    /\ NoFiles

PageNext(maxInFlight) ==
    \/ \E type \in UiDataTypes : SetSelectedDataType(type)
    \/ \E domain \in UiDomains : SetSelectedDomain(domain)
    \/ \E method \in {"describe", "upload"} : SetInputMethod(method)
    \/ \E text \in Descriptions : SetNaturalLanguageDescription(text)
    \/ \E n \in UiRowCounts : SetRowCount(n)
    \/ HandleGenerateSchema
    \/ \E outcome \in UiSchemaOutcomes, now \in Instants, seed \in UiSeeds :
            HandleGenerateSchemaResumes(outcome, now, seed)
    \/ HandleGenerate(maxInFlight)
    \/ \E i \in 1..maxInFlight, outcome \in UiGenOutcomes : GenerateRemoteSettles(i, outcome)
    \/ \E i \in 1..maxInFlight, now \in Instants, seed \in UiSeeds : GenerateFallsBack(i, now, seed)
    \/ \E i \in 1..maxInFlight : HandleGenerateResumes(i)
    \/ \E progress \in Progresses : OnGenerationUpdate(progress)

Next == PageNext(MaxGenReqs)

Spec == Init /\ [][Next]_vars

\* the page with calls of generateSyntheticDataset racing each other
NextRace == PageNext(MaxRacingReqs)

SpecRace == Init /\ [][NextRace]_vars

-----------------------------------------------------------------------------
(* Text *)

Quote == "\""

StrWhitespace == {" ", "\t", "\n", "\r"}

\* the i-th character of a string
Char(s, i) == SubSeq(s, i, i)

RECURSIVE StrTrimStart(_)
StrTrimStart(s) ==
    IF Len(s) > 0 /\ Char(s, 1) \in StrWhitespace
    THEN StrTrimStart(SubSeq(s, 2, Len(s)))
    ELSE s

RECURSIVE StrTrimEnd(_)
StrTrimEnd(s) ==
    IF Len(s) > 0 /\ Char(s, Len(s)) \in StrWhitespace
    THEN StrTrimEnd(SubSeq(s, 1, Len(s) - 1))
    ELSE s

\* String.prototype.trim
StrTrim(s) == StrTrimEnd(StrTrimStart(s))

\* String.prototype.endsWith
EndsWith(s, suffix) ==
    /\ Len(s) >= Len(suffix)
    /\ SubSeq(s, Len(s) - Len(suffix) + 1, Len(s)) = suffix

\* the positions of the one-character separator in s
SepPositions(s, sep) == {i \in 1..Len(s) : Char(s, i) = sep}

\* String.prototype.split, for a one-character separator
RECURSIVE Split(_, _)
Split(s, sep) ==
    IF SepPositions(s, sep) = {}
    THEN <<s>>
    ELSE LET i == CHOOSE k \in SepPositions(s, sep) : \A l \in SepPositions(s, sep) : k <= l
         IN  <<SubSeq(s, 1, i - 1)>> \o Split(SubSeq(s, i + 1, Len(s)), sep)

\* Array.prototype.join, for an array of strings
RECURSIVE Join(_, _)
Join(strs, sep) ==
    IF Len(strs) = 0 THEN ""
    ELSE IF Len(strs) = 1 THEN strs[1]
    ELSE strs[1] \o sep \o Join(Tail(strs), sep)

Pad2(n) == IF n < 10 THEN "0" \o ToString(n) ELSE ToString(n)

Pad4(n) ==
    IF n < 10 THEN "000" \o ToString(n)
    ELSE IF n < 100 THEN "00" \o ToString(n)
    ELSE IF n < 1000 THEN "0" \o ToString(n)
    ELSE ToString(n)

\* Date.prototype.toISOString, for an instant at >= 0 in seconds since the epoch
IsoText(at) ==
    LET days == at \div 86400
        secs == at % 86400
        z == days + 719468
        era == z \div 146097
        doe == z - era * 146097
        yoe == (doe - doe \div 1460 + doe \div 36524 - doe \div 146096) \div 365
        doy == doe - (365 * yoe + yoe \div 4 - yoe \div 100)
        mp == (5 * doy + 2) \div 153
        d == doy - (153 * mp + 2) \div 5 + 1
        m == IF mp < 10 THEN mp + 3 ELSE mp - 9
        y == yoe + era * 400 + (IF m <= 2 THEN 1 ELSE 0)
    IN  Pad4(y) \o "-" \o Pad2(m) \o "-" \o Pad2(d) \o "T"
        \o Pad2(secs \div 3600) \o ":" \o Pad2((secs % 3600) \div 60) \o ":"
        \o Pad2(secs % 60) \o ".000Z"

\* the characters of a string value
TextOf(x) == IF x.t = "isodate" THEN IsoText(x.v) ELSE x.v

-----------------------------------------------------------------------------
(* DataGeneratorService.exportData *)

Thrown == [t |-> "thrown", v |-> <<>>]

\* row[header]
Member(row, key) == IF HasKey(row, key) THEN Get(row, key) ELSE Undefined

\* what Array.prototype.join makes of an element: null and undefined are empty
Stringified(x) ==
    CASE x.t \in {"string", "isodate"} -> TextOf(x)
      [] x.t = "number" -> ToString(x.v)
      [] x.t = "boolean" -> IF x.v THEN "true" ELSE "false"
      [] OTHER -> ""

\* mutant: every value is wrapped in double quotes
CsvCell_QuotesAll(x) ==
    IF x.t \in {"undefined", "null"} THEN x
    ELSE Str(Quote \o Stringified(x) \o Quote)

\* typeof value === 'string' ? `"${value}"` : value
CsvCell(x) ==
    IF TypeOf(x) = "string" THEN Str(Quote \o TextOf(x) \o Quote) ELSE x

\* values.join(',') of one row, in the order of the headers
CsvLine(headers, row) ==
    Join([j \in 1..Len(headers) |-> Stringified(CsvCell(Member(row, headers[j])))], ",")

\* the csv branch, for an array of rows
ExportCsv(rows) ==
    IF Len(rows) = 0 THEN ""
    ELSE LET headers == Keys(rows[1])
         IN  Join(<<Join(headers, ",")>>
                  \o [r \in 1..Len(rows) |-> CsvLine(headers, rows[r])], "\n")

Backslash == "\\"

\* JSON.stringify's escaping of the characters of a string: the quote, the
\* backslash and the newline (no other control character occurs here)
RECURSIVE JsonEscape(_)
JsonEscape(s) ==
    LET at == {i \in 1..Len(s) : Char(s, i) \in {Quote, Backslash, "\n"}}
    IN  IF at = {} THEN s
        ELSE LET i == CHOOSE k \in at : \A l \in at : k <= l
             IN  SubSeq(s, 1, i - 1)
                 \o Backslash \o (IF Char(s, i) = "\n" THEN "n" ELSE Char(s, i))
                 \o JsonEscape(SubSeq(s, i + 1, Len(s)))

\* JSON.stringify of a member value
JsonValue(x) ==
    CASE x.t \in {"string", "isodate"} -> Quote \o JsonEscape(TextOf(x)) \o Quote
      [] x.t = "number" -> ToString(x.v)
      [] x.t = "boolean" -> IF x.v THEN "true" ELSE "false"
      [] OTHER -> "null"

\* a row at indentation 2: members that are undefined are left out
JsonRow(row) ==
    LET members == SelectSeq(row, LAMBDA e : e.v.t # "undefined")
    IN  IF Len(members) = 0 THEN "  {}"
        ELSE "  {\n"
             \o Join([j \in 1..Len(members) |->
                        "    " \o Quote \o JsonEscape(members[j].k) \o Quote \o ": "
                        \o JsonValue(members[j].v)], ",\n")
             \o "\n  }"

\* mutant: the brackets of an empty array stand on lines of their own
JsonStringify_EmptyOnTwoLines(rows) ==
    "[\n" \o Join([r \in 1..Len(rows) |-> JsonRow(rows[r])], ",\n") \o "\n]"

\* JSON.stringify(data, null, 2), for an array of rows
JsonStringify(rows) ==
    IF Len(rows) = 0 THEN "[]"
    ELSE "[\n" \o Join([r \in 1..Len(rows) |-> JsonRow(rows[r])], ",\n") \o "\n]"

\* mutant: every format other than 'json' is encoded as CSV
ExportData_CsvByDefault(data, format) ==
    IF format = "json"
    THEN IF data.t = "array" THEN Str(JsonStringify(data.v)) ELSE Undefined
    ELSE IF data.t = "array" THEN Str(ExportCsv(data.v)) ELSE Thrown

\* exportData(data, format): the string it resolves to, Undefined when
\* JSON.stringify is given undefined, Thrown when data.length throws
ExportData(data, format) ==
    IF format = "json"
    THEN IF data.t = "array" THEN Str(JsonStringify(data.v)) ELSE Undefined
    ELSE IF format = "csv"
    THEN IF data.t = "array" THEN Str(ExportCsv(data.v)) ELSE Thrown
    ELSE IF data.t = "array" THEN Str(JsonStringify(data.v)) ELSE Undefined

-----------------------------------------------------------------------------
(* JSON.parse, for texts of the JSON grammar without fractions, exponents *)
(* and string escapes other than those of the quote, the backslash and    *)
(* the newline                                                            *)

DigitChars == {"0", "1", "2", "3", "4", "5", "6", "7", "8", "9"}

DigitValue(c) == CHOOSE d \in 0..9 : ToString(d) = c

\* the first position at or after i that holds no JSON whitespace
RECURSIVE SkipWs(_, _)
SkipWs(s, i) ==
    IF i <= Len(s) /\ Char(s, i) \in StrWhitespace THEN SkipWs(s, i + 1) ELSE i

\* the end of the run of digits that starts at i
RECURSIVE DigitsEnd(_, _)
DigitsEnd(s, i) ==
    IF i <= Len(s) /\ Char(s, i) \in DigitChars THEN DigitsEnd(s, i + 1) ELSE i

\* the number the digits s[i .. j-1] denote
RECURSIVE DigitsValue(_, _, _)
DigitsValue(s, i, j) ==
    IF i >= j THEN 0
    ELSE DigitsValue(s, i, j - 1) * 10 + DigitValue(Char(s, j - 1))

\* the position of the next double quote at or after i that no backslash
\* escapes, past Len(s) if none
RECURSIVE QuoteAt(_, _)
QuoteAt(s, i) ==
    IF i > Len(s) \/ Char(s, i) = Quote THEN i
    ELSE IF Char(s, i) = Backslash THEN QuoteAt(s, i + 2)
    ELSE QuoteAt(s, i + 1)

\* the characters an escaped string denotes
RECURSIVE JsonUnescape(_)
JsonUnescape(s) ==
    LET at == {i \in 1..(Len(s) - 1) : Char(s, i) = Backslash}
    IN  IF at = {} THEN s
        ELSE LET i == CHOOSE k \in at : \A l \in at : k <= l
             IN  SubSeq(s, 1, i - 1)
                 \o (IF Char(s, i + 1) = "n" THEN "\n" ELSE Char(s, i + 1))
                 \o JsonUnescape(SubSeq(s, i + 2, Len(s)))

ParseFailed == [ok |-> FALSE, val |-> Undefined, next |-> 0]

Parsed(val, next) == [ok |-> TRUE, val |-> val, next |-> next]

\* obj[key] = x: a key the object has keeps its place
SetMember(obj, key, x) ==
    IF HasKey(obj, key)
    THEN [j \in 1..Len(obj) |-> IF obj[j].k = key THEN Entry(key, x) ELSE obj[j]]
    ELSE Append(obj, Entry(key, x))

ParseLiteral(s, i, word, val) ==
    IF i + Len(word) - 1 <= Len(s) /\ SubSeq(s, i, i + Len(word) - 1) = word
    THEN Parsed(val, i + Len(word))
    ELSE ParseFailed

\* a string: from the quote at i to the next quote
ParseString(s, i) ==
    LET j == QuoteAt(s, i + 1)
    IN  IF i <= Len(s) /\ Char(s, i) = Quote /\ j <= Len(s)
        THEN Parsed(Str(JsonUnescape(SubSeq(s, i + 1, j - 1))), j + 1)
        ELSE ParseFailed

\* an integer: an optional minus, then digits without a leading zero
ParseNumber(s, i) ==
    LET neg == i <= Len(s) /\ Char(s, i) = "-"
        from == IF neg THEN i + 1 ELSE i
        to == DigitsEnd(s, from)
    IN  IF to = from \/ (to - from > 1 /\ Char(s, from) = "0")
        THEN ParseFailed
        ELSE Parsed(Num(IF neg THEN 0 - DigitsValue(s, from, to)
                        ELSE DigitsValue(s, from, to)), to)

RECURSIVE ParseValue(_, _)
RECURSIVE ParseElements(_, _, _)
RECURSIVE ParseMembers(_, _, _)

\* the elements of an array after its first, up to the closing bracket
ParseElements(s, i, acc) ==
    LET j == SkipWs(s, i)
    IN  IF j > Len(s) THEN ParseFailed
        ELSE IF Char(s, j) = "]" THEN Parsed(Arr(acc), j + 1)
        ELSE IF Char(s, j) = ","
        THEN LET e == ParseValue(s, SkipWs(s, j + 1))
             IN  IF e.ok THEN ParseElements(s, e.next, Append(acc, e.val)) ELSE ParseFailed
        ELSE ParseFailed

\* one member "key": value at i, then the rest of the object
ParseMembers(s, i, acc) ==
    LET key == ParseString(s, SkipWs(s, i))
        colon == IF key.ok THEN SkipWs(s, key.next) ELSE 0
        member == IF key.ok /\ colon <= Len(s) /\ Char(s, colon) = ":"
                  THEN ParseValue(s, SkipWs(s, colon + 1))
                  ELSE ParseFailed
        after == IF member.ok THEN SkipWs(s, member.next) ELSE 0
    IN  IF ~member.ok \/ after > Len(s) THEN ParseFailed
        ELSE IF Char(s, after) = "}"
        THEN Parsed([t |-> "object", v |-> SetMember(acc, key.val.v, member.val)], after + 1)
        ELSE IF Char(s, after) = ","
        THEN ParseMembers(s, after + 1, SetMember(acc, key.val.v, member.val))
        ELSE ParseFailed

\* a JSON value that starts at i
ParseValue(s, i) ==
    IF i > Len(s) THEN ParseFailed
    ELSE CASE Char(s, i) = "n" -> ParseLiteral(s, i, "null", JsonNullValue)
           [] Char(s, i) = "t" -> ParseLiteral(s, i, "true", Bool(TRUE))
           [] Char(s, i) = "f" -> ParseLiteral(s, i, "false", Bool(FALSE))
           [] Char(s, i) = Quote -> ParseString(s, i)
           [] Char(s, i) = "[" ->
                LET j == SkipWs(s, i + 1)
                IN  IF j <= Len(s) /\ Char(s, j) = "]" THEN Parsed(Arr(<<>>), j + 1)
                    ELSE LET e == ParseValue(s, j)
                         IN  IF e.ok THEN ParseElements(s, e.next, <<e.val>>)
                             ELSE ParseFailed
           [] Char(s, i) = "{" ->
                LET j == SkipWs(s, i + 1)
                IN  IF j <= Len(s) /\ Char(s, j) = "}"
                    THEN Parsed([t |-> "object", v |-> <<>>], j + 1)
                    ELSE ParseMembers(s, j, <<>>)
           [] OTHER -> ParseNumber(s, i)

\* JSON.parse(text): the value, or Thrown for a SyntaxError
JsonParse(text) ==
    LET r == ParseValue(text, SkipWs(text, 1))
    IN  IF r.ok /\ SkipWs(text, r.next) = Len(text) + 1 THEN r.val ELSE Thrown

-----------------------------------------------------------------------------
(* DataGeneratorService.processUploadedData *)

\* a file: its name, its text, and whether the FileReader can read it
File(name, text, readable) == [name |-> name, text |-> text, readable |-> readable]

\* obj[header] = values[index] || '', for every header
CsvRow(headers, values) ==
    LET Step[n \in 0..Len(headers)] ==
            IF n = 0 THEN <<>>
            ELSE SetMember(Step[n - 1], headers[n],
                           Str(IF n <= Len(values) THEN values[n] ELSE ""))
    IN  Step[Len(headers)]

\* mutant: the filter keeps every row
SomeValue_KeepsAll(row) == Len(row) >= 0

\* Object.values(row).some(val => val !== '')
SomeValue(row) == \E j \in 1..Len(row) : row[j].v # Str("")

\* the csv branch: the rows of the text
ParseCsv(text) ==
    LET lines == Split(text, "\n")
        Trimmed(line) == LET cells == Split(line, ",")
                         IN  [j \in 1..Len(cells) |-> StrTrim(cells[j])]
        headers == Trimmed(lines[1])
        rows == [r \in 1..(Len(lines) - 1) |-> CsvRow(headers, Trimmed(lines[r + 1]))]
    IN  Arr([r \in 1..Len(SelectSeq(rows, SomeValue)) |->
                Obj(SelectSeq(rows, SomeValue)[r])])

\* the string is a StringNumericLiteral: blank, or an optionally signed decimal
\* (the forms Infinity, 0x.., 1e5 are not among the texts of the model)
NumberParses(s) ==
    LET t == StrTrim(s)
        signed == Len(t) > 0 /\ Char(t, 1) \in {"-", "+"}
        from == IF signed THEN 2 ELSE 1
        dots == {i \in from..Len(t) : Char(t, i) = "."}
    IN  \/ t = ""
        \/ /\ \A i \in from..Len(t) : Char(t, i) \in DigitChars \cup {"."}
           /\ Cardinality(dots) <= 1
           /\ \E i \in from..Len(t) : Char(t, i) \in DigitChars

\* !isNaN(Number(sampleValue))
IsNumeric(x) ==
    CASE x.t = "string" -> NumberParses(x.v)
      [] x.t \in {"number", "boolean", "null"} -> TRUE
      [] x.t = "array" -> Len(x.v) = 0
      [] OTHER -> FALSE

\* the number of days of month m of year y
DaysInMonth(y, m) ==
    IF m = 2
    THEN IF y % 4 = 0 /\ (y % 100 # 0 \/ y % 400 = 0) THEN 29 ELSE 28
    ELSE IF m \in {4, 6, 9, 11} THEN 30 ELSE 31

\* the string has the form YYYY-MM-DD of a calendar day, alone or followed by
\* the time of day Thh:mm:ss.sssZ
IsIsoDate(s) ==
    /\ Len(s) \in {10, 24}
    /\ \A i \in {1, 2, 3, 4, 6, 7, 9, 10} : Char(s, i) \in DigitChars
    /\ Char(s, 5) = "-" /\ Char(s, 8) = "-"
    /\ DigitsValue(s, 6, 8) \in 1..12
    /\ DigitsValue(s, 9, 11) \in 1..DaysInMonth(DigitsValue(s, 1, 5), DigitsValue(s, 6, 8))
    /\ Len(s) = 24 =>
        /\ Char(s, 11) = "T" /\ Char(s, 14) = ":" /\ Char(s, 17) = ":"
        /\ Char(s, 20) = "." /\ Char(s, 24) = "Z"
        /\ \A i \in {12, 13, 15, 16, 18, 19, 21, 22, 23} : Char(s, i) \in DigitChars
        /\ DigitsValue(s, 12, 14) < 24
        /\ DigitsValue(s, 15, 17) < 60
        /\ DigitsValue(s, 18, 20) < 60

\* new Date(sampleValue).toString() !== 'Invalid Date'. The ISO forms are
\* dates and a string without a digit is none; what the engine makes of any
\* other string with a digit is left to it (legacy).
IsValidDate(x, legacy) ==
    /\ x.t = "string"
    /\ \/ IsIsoDate(x.v)
       \/ (\E i \in 1..Len(x.v) : Char(x.v, i) \in DigitChars) /\ legacy

\* mutant: the date is tested before the number
InferType_DateFirst(x, legacy) ==
    IF IsValidDate(x, legacy) THEN "date"
    ELSE IF IsNumeric(x) THEN "number"
    ELSE IF x.t = "string" /\ x.v \in {"true", "false"} THEN "boolean"
    ELSE "string"

\* the if / else-if chain over sampleValue
InferType(x, legacy) ==
    IF IsNumeric(x) THEN "number"
    ELSE IF x.t = "string" /\ x.v \in {"true", "false"} THEN "boolean"
    ELSE IF IsValidDate(x, legacy) THEN "date"
    ELSE "string"

\* Object.keys(data[0]).forEach: the keys of a string or an array are its
\* indices, a number or boolean has no keys
InferSchema(first, legacy) ==
    CASE first.t = "object" ->
           [j \in 1..Len(first.v) |->
              Entry(first.v[j].k, Desc(InferType(first.v[j].v, legacy)))]
      [] first.t = "string" ->
           [j \in 1..Len(first.v) |->
              Entry(ToString(j - 1), Desc(InferType(Str(Char(first.v, j)), legacy)))]
      [] first.t = "array" ->
           [j \in 1..Len(first.v) |->
              Entry(ToString(j - 1), Desc(InferType(first.v[j], legacy)))]
      [] OTHER -> <<>>

\* the value of data.length
LengthOf(data) == IF data.t = "array" THEN Num(Len(data.v)) ELSE Undefined

\* the data the try block has parsed: JSON.parse for .json, the csv branch for
\* .csv, [] for any other name
ParsedData(file) ==
    IF EndsWith(file.name, ".json") THEN JsonParse(file.text)
    ELSE IF EndsWith(file.name, ".csv") THEN ParseCsv(file.text)
    ELSE Arr(<<>>)

\* the try block throws: JSON.parse, data.length of null, Object.keys of a
\* null first element
DataThrows(data) ==
    \/ data.t \in {"thrown", "null"}
    \/ /\ data.t = "array"
       /\ Len(data.v) > 0
       /\ data.v[1].t = "null"

\* the promise rejects: reader.onerror, or the try block throws
ProcessRejects(file) == ~file.readable \/ DataThrows(ParsedData(file))

\* const schema = {}; if (data.length > 0) { ... }
SchemaOf(data, legacy) ==
    IF data.t = "array" /\ Len(data.v) > 0 THEN InferSchema(data.v[1], legacy) ELSE <<>>

\* the object handed to resolve
Resolved(data, schema) ==
    [data |-> data,
     schema |-> Obj(schema),
     statistics |-> [rowCount |-> LengthOf(data), columnCount |-> Len(Keys(schema))],
     analysis |-> [domain |-> "custom", quality |-> [score |-> 85]]]

UploadedOf(data, legacy) == Resolved(data, SchemaOf(data, legacy))

\* the value processUploadedData resolves to
ProcessUploadedData(file, legacy) == UploadedOf(ParsedData(file), legacy)

-----------------------------------------------------------------------------
(* The DataGenerator page: onDrop and handleExportData *)

MaxUploads == 1

\* the dropzone's accept map: .csv, .xlsx and .json files
Accepted(file) ==
    \/ EndsWith(file.name, ".csv")
    \/ EndsWith(file.name, ".xlsx")
    \/ EndsWith(file.name, ".json")

\* onDrop, up to its await; a drop without an accepted file returns at once.
\* At most MaxUploads reads are followed at a time.
OnDrop(file) ==
    /\ inputMethod = "upload"
    /\ IF ~Accepted(file)
       THEN UNCHANGED <<toast, uploadReqs>>
       ELSE /\ Len(uploadReqs) < MaxUploads
            /\ toast' = "loading: processing uploaded file"
            /\ uploadReqs' = Append(uploadReqs, file)
    /\ UNCHANGED <<selectedDataType, selectedDomain, generationStep, isGenerating,
                   uploadedData, generatedData, generationProgress, inputMethod,
                   naturalLanguageDescription, generatedSchema, isGeneratingSchema,
                   generationConfig, user, isGuest, genReqs, schemaReqs,
                   download, codec, schemaCall, legacyCall>>

\* mutant: the wizard moves to step 2 whether or not the file was processed
OnDropResumes_StepsOnFailure(i, legacy) ==
    /\ i \in 1..Len(uploadReqs)
    /\ IF ProcessRejects(uploadReqs[i])
       THEN /\ toast' = "error: failed to process file"
            /\ UNCHANGED uploadedData
       ELSE /\ uploadedData' = ProcessUploadedData(uploadReqs[i], legacy)
            /\ toast' = "success: file processed"
    /\ generationStep' = 2
    /\ uploadReqs' = [j \in 1..(Len(uploadReqs) - 1) |->
                        IF j < i THEN uploadReqs[j] ELSE uploadReqs[j + 1]]
    /\ UNCHANGED <<selectedDataType, selectedDomain, isGenerating, generatedData,
                   generationProgress, inputMethod, naturalLanguageDescription,
                   generatedSchema, isGeneratingSchema, generationConfig, user,
                   isGuest, genReqs, schemaReqs, download, codec, schemaCall, legacyCall>>

\* The awaited processUploadedData of the i-th pending file settles and onDrop
\* runs from its await to its end.
OnDropResumes(i, legacy) ==
    /\ i \in 1..Len(uploadReqs)
    /\ IF ProcessRejects(uploadReqs[i])
       THEN /\ toast' = "error: failed to process file"
            /\ UNCHANGED <<uploadedData, generationStep>>
       ELSE /\ uploadedData' = ProcessUploadedData(uploadReqs[i], legacy)
            /\ generationStep' = 2
            /\ toast' = "success: file processed"
    /\ uploadReqs' = [j \in 1..(Len(uploadReqs) - 1) |->
                        IF j < i THEN uploadReqs[j] ELSE uploadReqs[j + 1]]
    /\ UNCHANGED <<selectedDataType, selectedDomain, isGenerating, generatedData,
                   generationProgress, inputMethod, naturalLanguageDescription,
                   generatedSchema, isGeneratingSchema, generationConfig, user,
                   isGuest, genReqs, schemaReqs, download, codec, schemaCall, legacyCall>>

\* type: format === 'json' ? 'application/json' : 'text/csv'
BlobType(format) ==
    IF format = "json" THEN "application/json" ELSE "text/csv"

\* `synthetic-data-${Date.now()}.${format}`
DownloadName(now, format) == "synthetic-data-" \o ToString(now) \o "." \o format

\* what new Blob([exportedData]) holds
BlobText(exported) == IF exported.t = "undefined" THEN "undefined" ELSE exported.v

\* mutant: a failed export discards the result and returns to the first step
HandleExportData_DiscardsOnFailure(format, now) ==
    /\ generatedData # Null
    /\ IF ExportData(generatedData.data, format).t = "thrown"
       THEN /\ toast' = "error: failed to export data"
            /\ generatedData' = Null
            /\ generationStep' = 1
            /\ UNCHANGED download
       ELSE /\ download' =
                 [name |-> DownloadName(now, format),
                  type |-> BlobType(format),
                  text |-> BlobText(ExportData(generatedData.data, format)),
                  format |-> format,
                  data |-> generatedData.data]
            /\ toast' = "success: data exported"
            /\ UNCHANGED <<generatedData, generationStep>>
    /\ UNCHANGED <<selectedDataType, selectedDomain, isGenerating,
                   uploadedData, generationProgress, inputMethod,
                   naturalLanguageDescription, generatedSchema, isGeneratingSchema,
                   generationConfig, user, isGuest, genReqs, schemaReqs,
                   uploadReqs, codec, schemaCall, legacyCall>>

\* handleExportData(format), for the buttons shown once there is generatedData;
\* data records what was exported
HandleExportData(format, now) ==
    /\ generatedData # Null
    /\ IF ExportData(generatedData.data, format).t = "thrown"
       THEN /\ toast' = "error: failed to export data"
            /\ UNCHANGED download
       ELSE /\ download' =
                 [name |-> DownloadName(now, format),
                  type |-> BlobType(format),
                  text |-> BlobText(ExportData(generatedData.data, format)),
                  format |-> format,
                  data |-> generatedData.data]
            /\ toast' = "success: data exported"
    /\ UNCHANGED <<selectedDataType, selectedDomain, generationStep, isGenerating,
                   uploadedData, generatedData, generationProgress, inputMethod,
                   naturalLanguageDescription, generatedSchema, isGeneratingSchema,
                   generationConfig, user, isGuest, genReqs, schemaReqs,
                   uploadReqs, codec, schemaCall, legacyCall>>

-----------------------------------------------------------------------------
(* A caller of exportData and processUploadedData other than the page *)

MaxTrips == 2

\* the rows of a parsed array of objects, as exportData is given them
RowsOfObjects(data) == Arr([r \in 1..Len(data.v) |-> data.v[r].v])

\* exportData(data, format)
CallExportData(data, format) ==
    /\ codec = Null
    /\ codec' = [origin |-> data, source |-> data, format |-> format,
                 text |-> ExportData(data, format),
                 file |-> Null, parsed |-> Null, trips |-> 0]
    /\ UNCHANGED <<uiVars, genReqs, schemaReqs, uploadReqs, download, schemaCall, legacyCall>>

\* processUploadedData(file), settled
CallProcessUploadedData(file, legacy) ==
    /\ codec = Null
    /\ codec' = [origin |-> Null, source |-> Null, format |-> "none",
                 text |-> Null, file |-> file,
                 parsed |-> IF ProcessRejects(file) THEN Thrown
                            ELSE ProcessUploadedData(file, legacy),
                 trips |-> 0]
    /\ UNCHANGED <<uiVars, genReqs, schemaReqs, uploadReqs, download, schemaCall, legacyCall>>

\* the text exported as csv or json is saved as a file of that extension and
\* handed to processUploadedData
ProcessExported(legacy) ==
    /\ codec # Null
    /\ codec.origin # Null
    /\ codec.parsed = Null
    /\ codec.format \in {"csv", "json"}
    /\ codec.text.t = "string"
    /\ LET file == File("data." \o codec.format, codec.text.v, TRUE)
       IN  codec' = [codec EXCEPT !.file = file,
                       !.parsed = IF ProcessRejects(file) THEN Thrown
                                  ELSE ProcessUploadedData(file, legacy)]
    /\ UNCHANGED <<uiVars, genReqs, schemaReqs, uploadReqs, download, schemaCall, legacyCall>>

\* the rows processUploadedData gave are exported again
ExportProcessed(format) ==
    /\ codec # Null
    /\ codec.origin # Null
    /\ codec.parsed # Null
    /\ codec.parsed # Thrown
    /\ codec.trips < MaxTrips
    /\ codec.parsed.data.t = "array"
    /\ \A r \in 1..Len(codec.parsed.data.v) : codec.parsed.data.v[r].t = "object"
    /\ codec' = [codec EXCEPT !.source = RowsOfObjects(codec.parsed.data),
                    !.format = format,
                    !.text = ExportData(RowsOfObjects(codec.parsed.data), format),
                    !.parsed = Null,
                    !.trips = @ + 1]
    /\ UNCHANGED <<uiVars, genReqs, schemaReqs, uploadReqs, download, schemaCall, legacyCall>>

-----------------------------------------------------------------------------
(* Files in use *)

\* schemas of the datasets that are exported: every descriptor that is not
\* null, alone, and one schema of two fields
ExportSchemas ==
    {s \in SchemasOfSize(0) \cup SchemasOfSize(1) : \A j \in 1..Len(s) : s[j].v.kind # "null"}
    \cup {<<Entry("a", Desc("string")), Entry("b", Desc("number"))>>}

\* datasets as the row synthesizer makes them, and datasets with an empty
\* string, a zero, a field name with a space in front, a null
ExportDatasets ==
    {GenerateFallbackData(Options(s, n), now, 1).data :
        s \in ExportSchemas, n \in RowCounts, now \in Instants}
    \cup {Arr(<< <<Entry("a", Str("")), Entry("b", Num(0))>>,
                 <<Entry("a", Str("x y")), Entry("b", Bool(FALSE))>> >>),
          Arr(<< <<Entry(" a", Num(1))>> >>),
          Arr(<< <<Entry("a", JsonNullValue)>>, <<Entry("a", Num(1))>> >>)}

Formats == {"csv", "json", "excel", "xml"}

UploadFiles ==
    {File("data.csv", "a,b\n1,true\n2,false", TRUE),
     File("data.csv", "a,b\n1,true\nx,2024-01-15", TRUE),
     File("data.csv", "a,b\nx,2024-01-15\n1,true", TRUE),
     File("data.csv", "a,b\n,false\n,", TRUE),
     File("data.csv", "a,b", TRUE),
     File("data.csv", " a , b \n 1 ,x\n , \n2\n3,y,z\n", TRUE),
     File("data.csv", "", TRUE),
     File("data.csv", "a\n1", FALSE),
     File("data.json", "[{\"a\": 1, \"b\": \"true\"}, {\"a\": \"x\"}]", TRUE),
     File("data.json", "[]", TRUE),
     File("data.json", "{\"a\": 1", TRUE),
     File("data.json", "null", TRUE),
     File("data.json", "", TRUE),
     File("data.xlsx", "PK", TRUE),
     File("data.xlsx", "", TRUE),
     File("data.txt", "a\n1", TRUE)}

\* files dropped on the page: processed, rejected, not accepted
DroppedFiles ==
    {File("data.csv", "a,b\n1,true\n2,false", TRUE),
     File("data.csv", "", TRUE),
     File("data.csv", "a\n1", FALSE),
     File("data.json", "{\"a\": 1", TRUE),
     File("data.xlsx", "PK", TRUE),
     File("data.txt", "a\n1", TRUE)}

\* results the page may hold after a generation
PageResults ==
    {GenerateFallbackData(Options(FinanceSchema, Num(n)), now, seed) :
        n \in UiRowCounts, now \in Instants, seed \in UiSeeds}
    \cup {RemoteResult(outcome) : outcome \in {o \in UiGenOutcomes : RemoteReturns(o)}}

\* The page of a guest who described the data, got the fallback schema of the
\* finance domain and whose generation ended with `result`.
GeneratedPage(result, now, seed) ==
    /\ selectedDataType = "tabular"
    /\ selectedDomain = "finance"
    /\ generationStep = 4
    /\ isGenerating = FALSE
    /\ uploadedData = Null
    /\ generatedData = result
    /\ generationProgress = 0
    /\ inputMethod = "describe"
    /\ naturalLanguageDescription = LongDescription
    /\ generatedSchema = GenerateFallbackSchema("finance", now, seed)
    /\ isGeneratingSchema = FALSE
    /\ generationConfig \in
         {[rowCount |-> n, quality_level |-> "high", privacy_level |-> "maximum"] :
            n \in UiRowCounts}
    /\ user = FALSE
    /\ isGuest = TRUE
    /\ toast = "success: generation complete"

\* the page as constructed, or after a generation
InitFiles ==
    /\ \/ \E n \in UiRowCounts : InitPage(FALSE, TRUE, n)
       \/ \E result \in PageResults, now \in Instants, seed \in UiSeeds :
            GeneratedPage(result, now, seed)
    /\ genReqs = <<>>
    /\ schemaReqs = <<>>
    /\ NoFiles

NextFiles ==
    \/ \E method \in {"describe", "upload"} : SetInputMethod(method)
    \/ \E file \in DroppedFiles : OnDrop(file)
    \/ \E i \in 1..MaxUploads, legacy \in BOOLEAN : OnDropResumes(i, legacy)
    \/ \E format \in {"csv", "json", "excel"}, now \in Instants : HandleExportData(format, now)

SpecFiles == InitFiles /\ [][NextFiles]_vars

\* a caller that holds no page state: the page stays as constructed
InitCodec ==
    /\ \E n \in UiRowCounts : InitPage(FALSE, TRUE, n)
    /\ genReqs = <<>>
    /\ schemaReqs = <<>>
    /\ NoFiles

NextCodec ==
    \/ \E data \in ExportDatasets, format \in Formats : CallExportData(data, format)
    \/ \E file \in UploadFiles, legacy \in BOOLEAN : CallProcessUploadedData(file, legacy)
    \/ \E legacy \in BOOLEAN : ProcessExported(legacy)
    \/ \E format \in {"csv", "json"} : ExportProcessed(format)

SpecCodec == InitCodec /\ [][NextCodec]_vars

-----------------------------------------------------------------------------
(* Domains in use *)

\* the tags of the page's domain buttons, no tag, and tags the chain over
\* domain does not know
SchemaDomains ==
    {"", "healthcare", "finance", "retail", "manufacturing", "education",
     "custom", "Finance", "weather"}

SchemaOutcomes ==
    {SchemaNetworkError, SchemaHttpFailure, SchemaInvalidJson, SchemaJsonNull}
    \cup UiSchemaOutcomes

NextSchema ==
    \E domain \in SchemaDomains, outcome \in SchemaOutcomes,
       now \in Instants, seed \in Seeds :
        CallGenerateSchemaFromDescription(domain, outcome, now, seed)

SpecSchema == InitCodec /\ [][NextSchema]_vars

-----------------------------------------------------------------------------
(* generateSyntheticData and generateMockData, the exports kept for older callers *)

\* options of the older interface: numRows, schema and an optional format
LegacyOptions(schema, numRows, format) ==
    [schema |-> schema, numRows |-> numRows, format |-> format]

\* the number of iterations of  for (let i = 0; i < numRows; i++)
MockLoopCount(numRows) ==
    IF numRows.t = "number" /\ numRows.v > 0 THEN numRows.v ELSE 0

\* the switch over schema[key].type, for row i (0-based) and draw u
MockValue(key, desc, i, now, u) ==
    CASE desc.type = "string" -> Str("Sample " \o key \o " " \o ToString(i + 1))
      [] desc.type = "number" -> Num(RandomInt1000(u))
      [] desc.type = "boolean" -> Bool(RandomBool(u))
      [] desc.type = "date" -> IsoDate(RandomPastInstant(now, u))
      [] OTHER -> Str("Value " \o ToString(i + 1))

\* one iteration of the row loop
MockRow(schema, i, now, seed) ==
    [j \in 1..Len(schema) |->
        Entry(schema[j].k,
              MockValue(schema[j].k, schema[j].v, i, now,
                        Random(seed, i * Len(schema) + (j - 1))))]

\* schema[key].type throws a TypeError when schema[key] is null or undefined
MockThrows(options) ==
    /\ MockLoopCount(options.numRows) > 0
    /\ \E j \in 1..Len(options.schema) : options.schema[j].v.kind = "null"

GenerateMockData(options, now, seed) ==
    Arr([n \in 1..MockLoopCount(options.numRows) |->
            MockRow(options.schema, n - 1, now, seed)])

\* options.format || 'json'
FormatOf(options) ==
    IF options.format.t = "undefined" \/ options.format.v = "" THEN "json"
    ELSE options.format.v

\* Object.keys(data[0] || {}), for a data whose .length could be read
FirstRowKeys(data) ==
    IF data.t = "array" /\ Len(data.v) > 0 THEN Keys(data.v[1]) ELSE <<>>

LegacyMetadata(data, options, elapsed) ==
    [rowCount |-> LengthOf(data),
     columns |-> FirstRowKeys(data),
     generationTime |-> elapsed,
     format |-> FormatOf(options)]

\* The try block runs to its return statement: fetch resolved, response.ok,
\* response.json() resolved, and neither result.data nor result.data.length
\* threw (result and result.data are neither null nor undefined).
LegacyRemoteReturns(outcome) ==
    /\ outcome.kind = "http"
    /\ outcome.ok
    /\ outcome.json = "object"
    /\ outcome.data.t \notin {"undefined", "null"}

\* how the promise of generateSyntheticData(options) settles
GenerateSyntheticData(options, outcome, now, seed, elapsed) ==
    IF LegacyRemoteReturns(outcome)
    THEN [rejected |-> FALSE, mock |-> FALSE, data |-> outcome.data,
          metadata |-> LegacyMetadata(outcome.data, options, elapsed)]
    ELSE IF MockThrows(options)
    THEN [rejected |-> TRUE, mock |-> TRUE, data |-> Undefined,
          metadata |-> LegacyMetadata(Undefined, options, elapsed)]
    ELSE [rejected |-> FALSE, mock |-> TRUE,
          data |-> GenerateMockData(options, now, seed),
          metadata |-> LegacyMetadata(GenerateMockData(options, now, seed),
                                      options, elapsed)]

\* generateSyntheticData(options), settled; calls do not share state, so one
\* call is followed
CallGenerateSyntheticData(options, outcome, now, seed, elapsed) ==
    /\ legacyCall = Null
    /\ legacyCall' = [options |-> options, outcome |-> outcome,
                      result |-> GenerateSyntheticData(options, outcome, now, seed, elapsed)]
    /\ UNCHANGED <<uiVars, genReqs, schemaReqs, uploadReqs, download, codec, schemaCall>>

\* numRows of the calls: none, a negative count and 0..MaxRows
LegacyRowCounts == RowCounts \cup {Undefined, Num(-1)}

LegacyOptionsInUse ==
    {LegacyOptions(s, n, f) :
        s \in Schemas, n \in LegacyRowCounts, f \in {Undefined, Str("csv")}}

\* what the backend may answer as data: nothing, null, rows, or a value that
\* is not an array
LegacyDatas ==
    {Undefined, JsonNullValue, Obj(<<>>), Arr(<<>>), Arr(<<RemoteRow(1, Num(7))>>)}

LegacyOutcomes ==
    {NetworkError, HttpFailure, InvalidJson, JsonNull}
    \cup {JsonObject(d, Undefined) : d \in LegacyDatas}

\* seconds between the two readings of Date.now()
Elapsed == {2}

NextLegacy ==
    /\ legacyCall = Null
    /\ \E options \in LegacyOptionsInUse, outcome \in LegacyOutcomes,
          now \in Instants, seed \in Seeds, elapsed \in Elapsed :
            CallGenerateSyntheticData(options, outcome, now, seed, elapsed)

SpecLegacy == InitCodec /\ [][NextLegacy]_vars

-----------------------------------------------------------------------------
(* The push channel in use: generations of a guest and their progress events *)

\* data.progress of the generation_update messages
PushProgresses == {Num(-1), Num(0), Num(50), Num(99), Num(100), Num(150)}

NextPush ==
    \/ HandleGenerate(MaxGenReqs)
    \/ \E i \in 1..MaxGenReqs, outcome \in UiGenOutcomes : GenerateRemoteSettles(i, outcome)
    \/ \E i \in 1..MaxGenReqs, now \in Instants, seed \in UiSeeds : GenerateFallsBack(i, now, seed)
    \/ \E i \in 1..MaxGenReqs : HandleGenerateResumes(i)
    \/ \E progress \in PushProgresses : OnGenerationUpdate(progress)

SpecPush == InitFiles /\ [][NextPush]_vars

-----------------------------------------------------------------------------
(* Properties of the orchestrator and the row synthesizer (SpecGen) *)

Reqs == 1..Len(genReqs)

\* the rows of a result's data (none when data is not an array)
RowsOf(result) == IF result.data.t = "array" THEN result.data.v ELSE <<>>

WellFormed(schema) == \A j \in 1..Len(schema) : schema[j].v.kind # "null"

RequestedRows(options) ==
    IF options.rowCount.t = "undefined" THEN 1000 ELSE options.rowCount.v

\* C1: when the remote generate call fails with a network error, the result
\* returned is tagged local_fallback, carries the scores 85 / 90 / 88 and has
\* exactly options.rowCount rows, 1000 when rowCount is not specified.
C1_NetworkErrorFallsBack ==
    \A i \in Reqs :
        (genReqs[i].outcome = NetworkError /\ genReqs[i].state \in TerminalStates)
        => /\ genReqs[i].state # "succeeded_remote"
           /\ WellFormed(genReqs[i].options.schema) => genReqs[i].state = "succeeded_fallback"
           /\ genReqs[i].state = "succeeded_fallback"
                => /\ genReqs[i].result.metadata.generationMethod = "local_fallback"
                   /\ genReqs[i].result.qualityScore = 85
                   /\ genReqs[i].result.privacyScore = 90
                   /\ genReqs[i].result.biasScore = 88
                   /\ genReqs[i].result.data.t = "array"
                   /\ Len(RowsOf(genReqs[i].result)) = RequestedRows(genReqs[i].options)

\* a network error, no rowCount given: the fallback result has 1000 rows
C1_Witness ==
    \E i \in Reqs :
        /\ genReqs[i].outcome = NetworkError
        /\ genReqs[i].state = "succeeded_fallback"
        /\ genReqs[i].options.rowCount.t = "undefined"
        /\ Len(genReqs[i].options.schema) > 0
        /\ Len(RowsOf(genReqs[i].result)) = 1000

\* the remote call of request i failed: network failure, non-success
\* response, or a body that is not a JSON object holding a `data` row array
RemoteFailed(i) ==
    \/ genReqs[i].outcome.kind = "network_error"
    \/ /\ genReqs[i].outcome.kind = "http"
       /\ \/ ~genReqs[i].outcome.ok
          \/ genReqs[i].outcome.json # "object"
          \/ genReqs[i].outcome.data.t # "array"

\* C2: on every kind of remote failure (network failure, non-success response,
\* malformed body, a body without a `data` row array) the orchestrator switches
\* to the local fallback and returns no result tagged backend_local.
C2_EveryRemoteFailureFallsBack ==
    \A i \in Reqs :
        RemoteFailed(i)
        => /\ genReqs[i].state # "succeeded_remote"
           /\ genReqs[i].result # Null
                => genReqs[i].result.metadata.generationMethod # "backend_local"

\* C3: in every result, metadata.rowsGenerated is the number of rows of data and
\* metadata.columnsGenerated is the number of fields of the request's schema.
C3_MetadataCountsMatch ==
    \A i \in Reqs :
        genReqs[i].result # Null
        => /\ genReqs[i].result.metadata.rowsGenerated = Len(RowsOf(genReqs[i].result))
           /\ genReqs[i].result.metadata.columnsGenerated
                = Cardinality(KeySet(genReqs[i].options.schema))

C7_RemoteScoresCarried ==
    \A i \in Reqs :
        genReqs[i].state = "succeeded_remote"
        => /\ genReqs[i].result.metadata.generationMethod = "backend_local"
           /\ IF genReqs[i].outcome.scores.t = "scores"
              THEN /\ genReqs[i].result.qualityScore = genReqs[i].outcome.scores.v.qualityScore
                   /\ genReqs[i].result.privacyScore = genReqs[i].outcome.scores.v.privacyScore
                   /\ genReqs[i].result.biasScore = genReqs[i].outcome.scores.v.biasScore
              ELSE /\ genReqs[i].result.qualityScore = 95
                   /\ genReqs[i].result.privacyScore = 98
                   /\ genReqs[i].result.biasScore = 92

\* the next state of a call is one the orchestrator's state machine allows
OrchestratorStep(before, after) ==
    \/ after = before
    \/ before = "requesting_remote" /\ after \in {"succeeded_remote", "falling_back"}
    \/ before = "falling_back" /\ after \in {"succeeded_fallback", "failed"}

\* C8: a request tries the remote backend first, runs the fallback only after
\* the remote attempt failed, and ends in exactly one terminal state, which it
\* keeps; it ends failed only if the fallback raised, so with a well-formed
\* schema it ends in succeeded_remote or succeeded_fallback once the remote call
\* has answered or failed.
C8_RequestEndsInOneTerminalState ==
    /\ [][Len(genReqs) = 1 /\ Len(genReqs') = 1
            => OrchestratorStep(genReqs[1].state, genReqs'[1].state)]_vars
    /\ [](\A i \in Reqs :
            /\ genReqs[i].state = "requesting_remote" <=> genReqs[i].outcome = Pending
            /\ genReqs[i].state \in {"falling_back", "succeeded_fallback", "failed"}
                 => RemoteFailed(i)
            /\ genReqs[i].state = "succeeded_remote"
                 => genReqs[i].result.metadata.generationMethod = "backend_local"
            /\ genReqs[i].state = "succeeded_fallback"
                 => genReqs[i].result.metadata.generationMethod = "local_fallback"
            /\ genReqs[i].state = "failed" => ~WellFormed(genReqs[i].options.schema))
    /\ (Len(genReqs) = 1 /\ genReqs[1].outcome # Pending
            /\ WellFormed(genReqs[1].options.schema))
         ~> (Len(genReqs) = 1
               /\ genReqs[1].state \in {"succeeded_remote", "succeeded_fallback"})

\* each terminal state is reached: a remote success, a fallback success for a
\* well-formed schema, and a failure of the fallback itself
C8_Witness ==
    \E i \in Reqs :
        /\ genReqs[i].state = "succeeded_fallback"
        /\ genReqs[i].outcome = HttpFailure
        /\ WellFormed(genReqs[i].options.schema)
        /\ Len(genReqs[i].options.schema) = 2
        /\ genReqs[i].options.rowCount = Num(2)

-----------------------------------------------------------------------------
(* Properties of the page (Spec, SpecRace) *)

\* the calls of generateSyntheticDataset that have not returned
InFlight == {i \in Reqs : genReqs[i].state \notin TerminalStates}

\* C5: the late response of a superseded request (one after which a newer
\* request was started) is ignored: it does not change generatedData.
C5_SupersededResponseIgnored ==
    [][\A i \in 1..MaxRacingReqs :
            (HandleGenerateResumes(i) /\ i < Len(genReqs))
            => generatedData' = generatedData]_vars

\* C6: at most one call of generateSyntheticDataset is in flight at any time.
C6_AtMostOneInFlight == Cardinality(InFlight) <= 1

\* the remote schema call failed: network error, non-success response, or a
\* response treated as failed (no JSON object, `schema` absent or without fields)
SchemaRemoteFailed(outcome) ==
    \/ outcome.kind = "network_error"
    \/ ~outcome.ok
    \/ outcome.json # "object"
    \/ outcome.body.schema.t # "object"
    \/ Len(outcome.body.schema.v) = 0

\* C9: a failed remote schema call never ends as a user-facing failure: the
\* fallback schema is used and handleGenerateSchema ends with a non-empty schema.
C9_SchemaFailureFallsBack ==
    [][\A outcome \in UiSchemaOutcomes, now \in Instants, seed \in UiSeeds :
            (HandleGenerateSchemaResumes(outcome, now, seed) /\ SchemaRemoteFailed(outcome))
            => /\ generatedSchema' # Null
               /\ generatedSchema'.schema.t = "object"
               /\ Len(generatedSchema'.schema.v) > 0
               /\ generationStep' = 2
               /\ toast' = "success: schema generated"]_vars

\* C10: a click on handleGenerateSchema with a description that is empty after
\* trimming, no domain or no data type starts no call of
\* generateSchemaFromDescription and leaves generatedSchema, generationStep and
\* isGeneratingSchema as they were; and no call of generateSyntheticDataset is
\* started while the domain or the data type is unselected.
C10_ValidationBlocks ==
    [][/\ (/\ HandleGenerateSchema
           /\ \/ Trim(naturalLanguageDescription) = <<>>
              \/ selectedDomain = ""
              \/ selectedDataType = "")
          => /\ schemaReqs' = schemaReqs
             /\ generatedSchema' = generatedSchema
             /\ generationStep' = generationStep
             /\ isGeneratingSchema' = isGeneratingSchema
       /\ Len(genReqs') > Len(genReqs)
          => selectedDomain # "" /\ selectedDataType # ""]_vars

\* a click with no domain selected was refused, and one with a blank description
C10_Witness ==
    /\ toast = "error: select a domain"
    /\ selectedDomain = ""
    /\ Trim(naturalLanguageDescription) # <<>>
    /\ schemaReqs = <<>>
    /\ ~isGeneratingSchema

-----------------------------------------------------------------------------
(* Properties of the row synthesizer over any descriptor (SpecGen) *)

KnownTypes == {"string", "number", "boolean", "date"}

\* C11: the row synthesizer is total over any field descriptor: the fallback
\* never raises, and a field whose descriptor has none of the types string,
\* number, boolean, date (unknown type, missing type, or a descriptor that is
\* not an object) gets the placeholder 'Value <i+1>' of its 1-based row ordinal.
C11_SynthesizerTotal ==
    \A i \in Reqs :
        genReqs[i].state \in {"succeeded_fallback", "failed"}
        => /\ genReqs[i].state = "succeeded_fallback"
           /\ \A r \in 1..Len(RowsOf(genReqs[i].result)) :
                \A j \in 1..Len(genReqs[i].options.schema) :
                    genReqs[i].options.schema[j].v.type \notin KnownTypes
                    => RowsOf(genReqs[i].result)[r][j].v = Str("Value " \o ToString(r))


-----------------------------------------------------------------------------
(* Properties of exportData (SpecCodec, SpecFiles) *)

\* the caller holds the text exportData made of codec.source in codec.format
HoldsExport == codec # Null /\ codec.origin # Null

\* what a cell of a CSV line is expected to read for the value x
ExpectedCell(x) ==
    IF TypeOf(x) = "string" THEN Quote \o TextOf(x) \o Quote
    ELSE IF x.t = "number" THEN ToString(x.v)
    ELSE IF x.t = "boolean" THEN (IF x.v THEN "true" ELSE "false")
    ELSE ""

\* C12: exportData on an empty dataset returns the empty string for format
\* 'csv' and the string '[]' for format 'json'.
C12_EmptyExport ==
    (HoldsExport /\ Len(codec.source.v) = 0)
    => /\ codec.format = "csv" => codec.text.t = "string" /\ codec.text.v = ""
       /\ codec.format = "json" => codec.text.t = "string" /\ codec.text.v = "[]"

\* an empty dataset was exported as json, read back, and exported as csv
C12_Witness ==
    /\ HoldsExport
    /\ Len(codec.origin.v) = 0
    /\ Len(codec.source.v) = 0
    /\ codec.trips = 1
    /\ codec.format = "csv"
    /\ codec.text.v = ""
    /\ codec.file.text = "[]"

\* C13: for a non-empty dataset the CSV export is one header line made of the
\* keys of the first row, then exactly one line per row giving that row's
\* values in the header's key order, strings wrapped in double quotes and
\* other values unquoted.
C13_CsvLayout ==
    (HoldsExport /\ codec.format = "csv" /\ Len(codec.source.v) > 0)
    => /\ codec.text.t = "string"
       /\ LET rows == codec.source.v
              headers == Keys(rows[1])
              lines == Split(codec.text.v, "\n")
          IN  /\ Len(lines) = 1 + Len(rows)
              /\ lines[1] = Join(headers, ",")
              /\ \A r \in 1..Len(rows) :
                    LET cells == Split(lines[r + 1], ",")
                    IN  IF Len(headers) = 0 THEN lines[r + 1] = ""
                        ELSE /\ Len(cells) = Len(headers)
                             /\ \A j \in 1..Len(headers) :
                                   cells[j] = ExpectedCell(Member(rows[r], headers[j]))

\* two rows of a string and a number or boolean were exported as csv
C13_Witness ==
    /\ HoldsExport
    /\ codec.format = "csv"
    /\ Len(codec.source.v) = 2
    /\ Keys(codec.source.v[1]) = <<"a", "b">>
    /\ codec.source.v[2][1].v.t = "string"
    /\ codec.source.v[2][2].v.t \in {"number", "boolean"}
    /\ Len(Split(codec.text.v, "\n")) = 3

\* C14: for a format other than 'csv' and 'json' (the 'excel' the page offers)
\* exportData returns the JSON encoding of the dataset, and the downloaded
\* blob has type 'application/json' only for format 'json' and 'text/csv'
\* for every other format.
C14_OtherFormatsAreJson ==
    download # Null
    => /\ download.format \notin {"csv", "json"}
          => download.text = BlobText(IF download.data.t = "array"
                                      THEN Str(JsonStringify(download.data.v))
                                      ELSE Undefined)
       /\ download.format = "json" => download.type = "application/json"
       /\ download.format # "json" => download.type = "text/csv"

\* the excel button gave a download of JSON text typed text/csv
C14_Witness ==
    /\ download # Null
    /\ download.format = "excel"
    /\ download.type = "text/csv"
    /\ download.data.t = "array"
    /\ Len(download.data.v) = 2
    /\ Char(download.text, 1) = "["


\* the field names of a dataset's rows
FieldSet(rows) == UNION {{rows[r][j].k : j \in 1..Len(rows[r])} : r \in 1..Len(rows)}

\* no string value of the dataset contains a comma, a quote or a newline
PlainStrings(rows) ==
    \A r \in 1..Len(rows) : \A j \in 1..Len(rows[r]) :
        TypeOf(rows[r][j].v) = "string"
        => \A c \in 1..Len(TextOf(rows[r][j].v)) :
              Char(TextOf(rows[r][j].v), c) \notin {",", Quote, "\n"}

\* the caller holds what processUploadedData made of an exported text
HoldsRoundTrip == HoldsExport /\ codec.parsed # Null

\* C15: a dataset whose string values contain no comma, quote or newline,
\* exported as CSV or JSON and parsed by processUploadedData, in any order
\* and again, comes back with the same number of rows and the same set of
\* field names.
C15_RoundTrip ==
    (HoldsRoundTrip /\ PlainStrings(codec.origin.v))
    => /\ codec.parsed # Thrown
       /\ Len(codec.parsed.data.v) = Len(codec.origin.v)
       /\ FieldSet(RowsOfObjects(codec.parsed.data).v) = FieldSet(codec.origin.v)


-----------------------------------------------------------------------------
(* Properties of processUploadedData (SpecCodec) *)

\* the caller holds what processUploadedData resolved to for codec.file
HoldsProcessed == codec # Null /\ codec.parsed # Null /\ codec.parsed # Thrown

\* the inferred type of the schema's j-th field
InferredType(j) == codec.parsed.schema.v[j].v.type

\* C16: schema inference gives each field of the first row exactly one type,
\* from the first row's value alone, in the precedence number, boolean (the
\* literals 'true' and 'false'), date, string; what later rows hold does not
\* matter. The CSV text 'a,b\n1,true\n2,false' yields a: number, b: boolean.
C16_InferenceFromFirstRow ==
    (/\ HoldsProcessed
     /\ codec.parsed.data.t = "array"
     /\ Len(codec.parsed.data.v) > 0
     /\ codec.parsed.data.v[1].t = "object")
    => LET first == codec.parsed.data.v[1].v
       IN  /\ Keys(codec.parsed.schema.v) = Keys(first)
           /\ \A j \in 1..Len(first) :
                LET x == first[j].v
                    literal == x.t = "string" /\ x.v \in {"true", "false"}
                IN  /\ InferredType(j) \in KnownTypes
                    /\ InferredType(j) = "number" <=> IsNumeric(x)
                    /\ InferredType(j) = "boolean" <=> (~IsNumeric(x) /\ literal)
                    /\ InferredType(j) = "date" => (~IsNumeric(x) /\ ~literal /\ x.t = "string")
                    /\ (x.t = "string" /\ IsIsoDate(x.v)) => InferredType(j) = "date"
                    /\ (x.t = "string" /\ x.v = "1") => InferredType(j) = "number"
                    /\ (x.t = "string" /\ x.v = "true") => InferredType(j) = "boolean"
                    /\ (x.t = "string" /\ x.v = "2024-01-15") => InferredType(j) = "date"
                    /\ (x.t = "string" /\ x.v = "x") => InferredType(j) = "string"
           /\ (codec.file.name = "data.csv" /\ Len(first) = 2
               /\ first[1].v.t = "string" /\ first[1].v.v = "1"
               /\ first[2].v.t = "string" /\ first[2].v.v = "true")
              => /\ Keys(codec.parsed.schema.v) = <<"a", "b">>
                 /\ InferredType(1) = "number"
                 /\ InferredType(2) = "boolean"

\* a CSV file whose second row holds a word and a date got a: number and
\* b: boolean from its first row
C16_Witness ==
    /\ HoldsProcessed
    /\ codec.file.text = "a,b\n1,true\nx,2024-01-15"
    /\ Len(codec.parsed.data.v) = 2
    /\ Keys(codec.parsed.schema.v) = <<"a", "b">>
    /\ InferredType(1) = "number"
    /\ InferredType(2) = "boolean"


\* C17: processUploadedData rejects when the file cannot be read as text,
\* when a .json file does not hold valid JSON, and when the file is empty; a
\* non-empty file that yields no inferred field resolves.
C17_RejectsUnreadableInvalidEmpty ==
    (codec # Null /\ codec.file # Null /\ codec.parsed # Null)
    => /\ (\/ ~codec.file.readable
           \/ EndsWith(codec.file.name, ".json") /\ JsonParse(codec.file.text).t = "thrown"
           \/ codec.file.text = "")
          => codec.parsed = Thrown
       /\ (/\ codec.file.readable
           /\ codec.file.text # ""
           /\ ParsedData(codec.file).t = "array"
           /\ Len(ParsedData(codec.file).v) = 0)
          => /\ codec.parsed # Thrown
             /\ codec.parsed.statistics.columnCount = 0


-----------------------------------------------------------------------------
(* Properties of the page's onDrop (SpecFiles) *)

\* C18: when processing an uploaded file fails the wizard does not move on
\* account of that upload: onDrop, before its await and after the rejection,
\* leaves generationStep and uploadedData as they were.
C18_FailedUploadBlocks ==
    [][/\ (\E file \in DroppedFiles : OnDrop(file))
          => /\ generationStep' = generationStep
             /\ uploadedData' = uploadedData
       /\ (\E i \in 1..Len(uploadReqs), legacy \in BOOLEAN :
              ProcessRejects(uploadReqs[i]) /\ OnDropResumes(i, legacy))
          => /\ generationStep' = generationStep
             /\ uploadedData' = uploadedData]_vars

\* a dropped file was rejected while the wizard was at its first step
C18_Witness ==
    /\ toast = "error: failed to process file"
    /\ uploadReqs = <<>>
    /\ generationStep = 1
    /\ uploadedData = Null
    /\ inputMethod = "upload"


-----------------------------------------------------------------------------
(* Properties of generateFallbackSchema (SpecSchema) *)

\* the caller received the schema of the fallback synthesizer
HoldsFallbackSchema ==
    schemaCall # Null /\ ~SchemaRemoteReturns(schemaCall.outcome)

\* C19: for domain 'finance' the fallback schema synthesizer returns a schema
\* with exactly the fields account_id, customer_name, transaction_amount,
\* transaction_type, transaction_date, balance, and exactly 3 sample rows.
C19_FinanceSchema ==
    (HoldsFallbackSchema /\ schemaCall.domain = "finance")
    => /\ Len(schemaCall.value.schema.v) = 6
       /\ KeySet(schemaCall.value.schema.v) =
            {"account_id", "customer_name", "transaction_amount",
             "transaction_type", "transaction_date", "balance"}
       /\ Len(schemaCall.value.sampleData.v) = 3

\* the fetch answered with a failure status and the caller got the finance
\* schema with three sample rows
C19_Witness ==
    /\ HoldsFallbackSchema
    /\ schemaCall.domain = "finance"
    /\ schemaCall.outcome.kind = "http"
    /\ "balance" \in KeySet(schemaCall.value.schema.v)
    /\ Len(schemaCall.value.sampleData.v) = 3

\* C20: for every domain tag other than healthcare, finance and retail (the
\* page's manufacturing, education and custom, and the empty tag, among them)
\* generateFallbackSchema returns the generic schema of the 5 fields id,
\* name, value, category, created_at; and for every domain tag it returns
\* exactly 3 sample rows, each with exactly the keys of the returned schema.
C20_GenericSchemaAndSamples ==
    HoldsFallbackSchema
    => /\ schemaCall.domain \notin {"healthcare", "finance", "retail"}
          => /\ Len(schemaCall.value.schema.v) = 5
             /\ KeySet(schemaCall.value.schema.v) =
                  {"id", "name", "value", "category", "created_at"}
       /\ Len(schemaCall.value.sampleData.v) = 3
       /\ \A r \in 1..Len(schemaCall.value.sampleData.v) :
             /\ Len(schemaCall.value.sampleData.v[r]) = Len(schemaCall.value.schema.v)
             /\ KeySet(schemaCall.value.sampleData.v[r]) = KeySet(schemaCall.value.schema.v)

\* the fallback was asked for no domain and gave the generic schema
C20_Witness ==
    /\ HoldsFallbackSchema
    /\ schemaCall.domain = ""
    /\ Keys(schemaCall.value.schema.v) = <<"id", "name", "value", "category", "created_at">>
    /\ Len(schemaCall.value.sampleData.v) = 3
    /\ Keys(schemaCall.value.sampleData.v[3]) = Keys(schemaCall.value.schema.v)

-----------------------------------------------------------------------------
(* Properties of the synthesized values (SpecGen) *)

\* the row synthesizer ran for request i at the instant now and filled
\* every declared number with an integer of 0..999 and every declared date
\* with an instant of the 365 days that end at now
HoldsValueRanges(i, now) ==
    LET schema == genReqs[i].options.schema
        rows == RowsOf(genReqs'[i].result)
    IN  \A r \in 1..Len(rows) : \A j \in 1..Len(schema) :
            /\ schema[j].v.type = "number" =>
                  /\ rows[r][j].v.t = "number"
                  /\ rows[r][j].v.v \in 0..999
            /\ schema[j].v.type = "date" =>
                  /\ rows[r][j].v.t = "isodate"
                  /\ rows[r][j].v.v <= now
                  /\ rows[r][j].v.v >= now - 365 * 24 * 60 * 60

\* C21: in every row produced by the row synthesizer, the value of each field
\* declared number is an integer in [0, 1000), and the value of each field
\* declared date is a timestamp no later than the generation instant and no
\* earlier than 365 days before it.
C21_ValueRanges ==
    [][\A i \in 1..MaxGenReqs : \A now \in Instants : \A seed \in Seeds :
            (GenerateFallsBack(i, now, seed) /\ genReqs'[i].state = "succeeded_fallback")
            => HoldsValueRanges(i, now)]_vars

\* a fallback result of two rows with a number above 0 and a date before the
\* generation instant
C21_Witness ==
    \E i \in Reqs :
        /\ genReqs[i].state = "succeeded_fallback"
        /\ Len(genReqs[i].options.schema) = 2
        /\ genReqs[i].options.schema[1].v.type = "number"
        /\ genReqs[i].options.schema[2].v.type = "date"
        /\ Len(RowsOf(genReqs[i].result)) = 2
        /\ \E r \in 1..2 : RowsOf(genReqs[i].result)[r][1].v.v > 0
        /\ \E r \in 1..2 : \A now \in Instants :
               RowsOf(genReqs[i].result)[r][2].v.v < now

-----------------------------------------------------------------------------
(* Properties of the export handler (SpecFiles) *)

ExportFormats == {"csv", "json", "excel"}

\* C22: exporting never changes the stored generation result: after
\* handleExportData, whether the export succeeds or fails, generatedData (its
\* rows, metadata and scores), generationStep and isGenerating are unchanged,
\* so the export can be retried on the same result.
C22_ExportKeepsResult ==
    [][\A format \in ExportFormats : \A now \in Instants :
            HandleExportData(format, now)
            => /\ generatedData' = generatedData
               /\ generationStep' = generationStep
               /\ isGenerating' = isGenerating]_vars

\* an export was downloaded, a later export of the same result failed, and the
\* result is still shown at the review step
C22_Witness ==
    /\ generatedData # Null
    /\ generationStep = 4
    /\ download # Null
    /\ toast = "error: failed to export data"

-----------------------------------------------------------------------------
(* Properties of the schema handler (Spec) *)

\* generatedSchema holds a schema of at least one field
HoldsSchemaWithFields(stored) ==
    IF stored = Null THEN FALSE
    ELSE /\ stored.t = "object"
         /\ stored.schema.t = "object"
         /\ Len(Keys(stored.schema.v)) >= 1

\* C23: a schema-from-description result whose schema is absent or has zero
\* fields is treated as failed: every invocation of handleGenerateSchema that
\* passes validation ends with isGeneratingSchema = false and, at that moment,
\* either generatedSchema holds a schema with at least one field and
\* generationStep = 2, or generatedSchema is null and generationStep = 1.
\* (An invocation ends in the step that takes its call off schemaReqs.)
C23_SchemaHandlerOutcome ==
    [][Len(schemaReqs') < Len(schemaReqs) =>
        \A outcome \in UiSchemaOutcomes : \A now \in Instants : \A seed \in UiSeeds :
            HandleGenerateSchemaResumes(outcome, now, seed)
            => /\ isGeneratingSchema' = FALSE
               /\ \/ HoldsSchemaWithFields(generatedSchema') /\ generationStep' = 2
                  \/ generatedSchema' = Null /\ generationStep' = 1]_vars

\* the handler ended in failure on a result without schema fields
C23_Witness ==
    /\ toast = "error: schema generation failed"
    /\ generatedSchema = Null
    /\ generationStep = 1
    /\ ~isGeneratingSchema
    /\ schemaReqs = <<>>

\* the handler ended in success
C23_WitnessStored ==
    /\ toast = "success: schema generated"
    /\ HoldsSchemaWithFields(generatedSchema)
    /\ generationStep = 2

-----------------------------------------------------------------------------
(* Properties of the push channel (SpecPush) *)

\* C24: a generation_update with progress = 100 is terminal success
\* (isGenerating becomes false and generationStep becomes 4) and one with
\* progress = -1 is terminal failure (isGenerating becomes false,
\* generationProgress and generationStep keep their previous values); any
\* event with 0 <= progress < 100 only updates generationProgress and leaves
\* isGenerating and generationStep unchanged.
C24_ProgressEvents ==
    [][\A progress \in PushProgresses :
            OnGenerationUpdate(progress)
            => /\ progress.v = 100 =>
                    /\ isGenerating' = FALSE
                    /\ generationStep' = 4
               /\ progress.v = -1 =>
                    /\ isGenerating' = FALSE
                    /\ generationProgress' = generationProgress
                    /\ generationStep' = generationStep
               /\ (0 <= progress.v /\ progress.v < 100) =>
                    /\ generationProgress' = progress.v
                    /\ isGenerating' = isGenerating
                    /\ generationStep' = generationStep
                    /\ generatedData' = generatedData]_vars

\* a generation is under way at half of its progress
C24_WitnessRunning ==
    /\ isGenerating
    /\ generationStep = 3
    /\ generationProgress = 50

\* the failure event ended a generation that had reported half of its progress
C24_Witness ==
    /\ ~isGenerating
    /\ generationStep = 3
    /\ generationProgress = 50
    /\ toast = "error: generation failed (push)"

-----------------------------------------------------------------------------
(* Properties of the CSV branch (SpecCodec) *)

\* the trimmed comma-separated tokens of a line
TokensOf(line) ==
    [j \in 1..Len(Split(line, ",")) |-> StrTrim(Split(line, ",")[j])]

\* the value at position n of a line: '' when the line has no such token
TokenAt(line, n) ==
    IF n <= Len(TokensOf(line)) THEN TokensOf(line)[n] ELSE ""

\* position n names its field (no later token of the header repeats the name)
NamesField(headers, n) == \A m \in (n + 1)..Len(headers) : headers[m] # headers[n]

\* what the claim says of the rows and statistics read from the lines
CsvParsedAs(lines, parsed) ==
    LET headers == TokensOf(lines[1])
        HasValue(r) == \E n \in 1..Len(headers) :
                          NamesField(headers, n) /\ TokenAt(lines[r], n) # ""
        kept == SelectSeq([r \in 1..(Len(lines) - 1) |-> r + 1], HasValue)
        rows == parsed.data.v
    IN  /\ parsed.data.t = "array"
        /\ Len(rows) = Len(kept)
        /\ \A k \in 1..Len(rows) :
              /\ rows[k].t = "object"
              /\ KeySet(rows[k].v) = {headers[n] : n \in 1..Len(headers)}
              /\ \A n \in 1..Len(headers) :
                    NamesField(headers, n)
                    => Get(rows[k].v, headers[n]) = Str(TokenAt(lines[kept[k]], n))
        /\ parsed.statistics.rowCount = Num(Len(kept))
        /\ parsed.statistics.columnCount = Len(parsed.schema.v)
        /\ parsed.statistics.columnCount =
              IF Len(kept) = 0 THEN 0
              ELSE Cardinality({headers[n] : n \in 1..Len(headers)})

\* C25: CSV parsing in processUploadedData takes the trimmed tokens of the
\* first line as field names, assigns the comma-separated values of each later
\* line to those names by position (a missing value becomes the empty string),
\* and drops every row all of whose values are empty; statistics.rowCount
\* equals the number of kept rows and statistics.columnCount the number of
\* inferred schema fields.
C25_CsvParsing ==
    (HoldsProcessed /\ EndsWith(codec.file.name, ".csv"))
    => CsvParsedAs(Split(codec.file.text, "\n"), codec.parsed)

\* a file with padded names, a short line, a long line, a line of blanks and
\* a last empty line gave three rows of two fields
C25_Witness ==
    /\ HoldsProcessed
    /\ codec.file.text = " a , b \n 1 ,x\n , \n2\n3,y,z\n"
    /\ Len(codec.parsed.data.v) = 3
    /\ Keys(codec.parsed.data.v[2].v) = <<"a", "b">>
    /\ Get(codec.parsed.data.v[2].v, "b") = Str("")
    /\ codec.parsed.statistics.columnCount = 2

-----------------------------------------------------------------------------
(* Invariants of the wizard (Spec) *)

\* C26: in every reachable state of the page, generationStep = 4 (the review
\* step) implies that generatedData is non-null: the wizard shows the review
\* step only when a generation result is stored.
C26_ReviewHasResult == generationStep = 4 => generatedData # Null

\* C28: in every reachable state of the page, isGenerating = true implies
\* generationStep = 3: while a generation is marked in progress no other
\* handler (file drop, schema generation, progress events) moves the wizard
\* to another step.
C28_GeneratingAtStepThree == isGenerating => generationStep = 3

-----------------------------------------------------------------------------
(* Properties of the generate button (SpecFiles, Spec) *)

\* C27: generateSyntheticDataset is never called by the page with a schema of
\* zero fields: whenever handleGenerate can be triggered (the generate button
\* is enabled), the schema taken from the input method in use
\* (uploadedData.schema for 'upload', generatedSchema.schema for 'describe')
\* has at least one field.
C27_EnabledWithFields ==
    IsGenerationButtonEnabled => Len(GenerateOptions.schema) >= 1


\* the state of the page's hooks and the calls under way
PageState ==
    <<selectedDataType, selectedDomain, generationStep, isGenerating, uploadedData,
      generatedData, generationProgress, inputMethod, naturalLanguageDescription,
      generatedSchema, isGeneratingSchema, generationConfig, genReqs, schemaReqs>>

\* C29: when generateSyntheticDataset rejects inside handleGenerate, the
\* handler ends with isGenerating = false and generationStep = 2 and leaves
\* generatedData unchanged (the prior result, or null); and when handleGenerate
\* is called with no signed-in user and not in guest mode, it changes no state
\* at all and issues no request.
C29_GenerateFailureAndSignIn ==
    [][/\ \A i \in 1..MaxGenReqs :
            (HandleGenerateResumes(i) /\ genReqs[i].state = "failed")
            => /\ isGenerating' = FALSE
               /\ generationStep' = 2
               /\ generatedData' = generatedData
       /\ (HandleGenerate(MaxGenReqs) /\ ~user /\ ~isGuest)
            => PageState' = PageState]_vars

\* a generation failed after an earlier one had stored its result
C29_Witness ==
    /\ toast = "error: generation failed"
    /\ ~isGenerating
    /\ generationStep = 2
    /\ generatedData # Null
    /\ genReqs = <<>>

\* a visitor who is neither signed in nor a guest was turned away
C29_WitnessSignIn ==
    /\ toast = "error: please sign in"
    /\ ~user /\ ~isGuest
    /\ genReqs = <<>>

-----------------------------------------------------------------------------
(* Properties of generateSyntheticData (SpecLegacy) *)

\* every descriptor of the schema is an object
ObjectDescriptors(schema) == \A j \in 1..Len(schema) : schema[j].v.kind = "object"

\* the fetch rejected, the response was not a success, or the body of a
\* successful response holds no data array
NoDataArray(outcome) ==
    \/ outcome.kind = "network_error"
    \/ outcome.kind = "http" /\ ~outcome.ok
    \/ outcome.kind = "http" /\ outcome.ok /\ outcome.json = "object"
       /\ outcome.data.t # "array"

\* the result holds the mock rows of the options
HoldsMockRows(options, result) ==
    /\ result.data.t = "array"
    /\ (options.numRows.t = "number" /\ options.numRows.v >= 0)
          => Len(result.data.v) = options.numRows.v
    /\ \A r \in 1..Len(result.data.v) :
          KeySet(result.data.v[r]) = KeySet(options.schema)

\* C30: generateSyntheticData never rejects for a schema whose descriptors are
\* objects: on a network error, a non-success response, or a successful
\* response without a data array it returns the mock rows instead, with
\* exactly numRows rows (for numRows >= 0) each having the schema's key set;
\* and in every returned result metadata.rowCount equals the length of data
\* and metadata.columns equals the keys of the first row (empty when there
\* are no rows).
C30_LegacyFallsBackToMock ==
    (legacyCall # Null /\ ObjectDescriptors(legacyCall.options.schema))
    => /\ ~legacyCall.result.rejected
       /\ NoDataArray(legacyCall.outcome)
            => HoldsMockRows(legacyCall.options, legacyCall.result)
       /\ legacyCall.result.data.t = "array" =>
            /\ legacyCall.result.metadata.rowCount = Num(Len(legacyCall.result.data.v))
            /\ legacyCall.result.metadata.columns =
                 IF Len(legacyCall.result.data.v) = 0 THEN <<>>
                 ELSE Keys(legacyCall.result.data.v[1])

=============================================================================
